---- MODULE Spec2Model ----
(***************************************************************************)
(* A model of the NHL stats agents: the team name resolver, the upstream   *)
(* fetch adapters, and the entrypoint handlers of the NHL-API agent and    *)
(* of the ESPN agent, with their input schemas and response shaping.       *)
(*                                                                         *)
(* A JavaScript string that the code inspects character by character is a  *)
(* sequence of one-character strings.                                      *)
(***************************************************************************)
EXTENDS Integers, Sequences, FiniteSets, TLC

(***************************************************************************)
(* Bounds of the model.                                                    *)
(***************************************************************************)
\* how many case changes and whitespace insertions are applied to a word
MaxEdits == 2

(***************************************************************************)
(* Characters: String.prototype.toLowerCase / toUpperCase and the \s class *)
(***************************************************************************)
LowerLetters ==
  <<"a","b","c","d","e","f","g","h","i","j","k","l","m",
    "n","o","p","q","r","s","t","u","v","w","x","y","z">>

UpperLetters ==
  <<"A","B","C","D","E","F","G","H","I","J","K","L","M",
    "N","O","P","Q","R","S","T","U","V","W","X","Y","Z">>

Whitespace == {" ", "\t"}

\* the letter of `to` at the place c has in `from`; c itself when it has none
MapChar(c, from, to) ==
  IF \E i \in 1..Len(from) : from[i] = c
  THEN to[CHOOSE i \in 1..Len(from) : from[i] = c] ELSE c

LowerChar(c) == MapChar(c, UpperLetters, LowerLetters)

UpperChar(c) == MapChar(c, LowerLetters, UpperLetters)

\* input.toLowerCase()
toLowerCase(s) == [i \in 1..Len(s) |-> LowerChar(s[i])]

\* input.toUpperCase()
toUpperCase(s) == [i \in 1..Len(s) |-> UpperChar(s[i])]

\* s.replace(/\s+/g, '')
RECURSIVE replaceWhitespace(_)
replaceWhitespace(s) ==
  IF s = <<>> THEN <<>>
  ELSE IF Head(s) \in Whitespace THEN replaceWhitespace(Tail(s))
  ELSE <<Head(s)>> \o replaceWhitespace(Tail(s))

(***************************************************************************)
(* The Team Alias Table and resolveTeam                                    *)
(***************************************************************************)
TeamEntries == {
    <<<<"a","v","a","l","a","n","c","h","e">>, <<"C","O","L">>>>, <<<<"c","o","l","o","r","a","d","o">>, <<"C","O","L">>>>, <<<<"c","o","l">>, <<"C","O","L">>>>,
    <<<<"o","i","l","e","r","s">>, <<"E","D","M">>>>, <<<<"e","d","m","o","n","t","o","n">>, <<"E","D","M">>>>, <<<<"e","d","m">>, <<"E","D","M">>>>,
    <<<<"l","i","g","h","t","n","i","n","g">>, <<"T","B","L">>>>, <<<<"t","a","m","p","a">>, <<"T","B","L">>>>, <<<<"t","b","l">>, <<"T","B","L">>>>,
    <<<<"b","r","u","i","n","s">>, <<"B","O","S">>>>, <<<<"b","o","s","t","o","n">>, <<"B","O","S">>>>, <<<<"b","o","s">>, <<"B","O","S">>>>,
    <<<<"h","u","r","r","i","c","a","n","e","s">>, <<"C","A","R">>>>, <<<<"c","a","r","o","l","i","n","a">>, <<"C","A","R">>>>, <<<<"c","a","r">>, <<"C","A","R">>>>,
    <<<<"s","t","a","r","s">>, <<"D","A","L">>>>, <<<<"d","a","l","l","a","s">>, <<"D","A","L">>>>, <<<<"d","a","l">>, <<"D","A","L">>>>,
    <<<<"w","i","l","d">>, <<"M","I","N">>>>, <<<<"m","i","n","n","e","s","o","t","a">>, <<"M","I","N">>>>, <<<<"m","i","n">>, <<"M","I","N">>>>,
    <<<<"p","e","n","g","u","i","n","s">>, <<"P","I","T">>>>, <<<<"p","i","t","t","s","b","u","r","g","h">>, <<"P","I","T">>>>, <<<<"p","i","t">>, <<"P","I","T">>>>,
    <<<<"s","a","b","r","e","s">>, <<"B","U","F">>>>, <<<<"b","u","f","f","a","l","o">>, <<"B","U","F">>>>, <<<<"b","u","f">>, <<"B","U","F">>>>,
    <<<<"c","a","n","a","d","i","e","n","s">>, <<"M","T","L">>>>, <<<<"m","o","n","t","r","e","a","l">>, <<"M","T","L">>>>, <<<<"m","t","l">>, <<"M","T","L">>>>,
    <<<<"k","n","i","g","h","t","s">>, <<"V","G","K">>>>, <<<<"v","e","g","a","s">>, <<"V","G","K">>>>, <<<<"v","g","k">>, <<"V","G","K">>>>,
    <<<<"s","h","a","r","k","s">>, <<"S","J","S">>>>, <<<<"s","a","n","j","o","s","e">>, <<"S","J","S">>>>, <<<<"s","j","s">>, <<"S","J","S">>>>,
    <<<<"k","r","a","k","e","n">>, <<"S","E","A">>>>, <<<<"s","e","a","t","t","l","e">>, <<"S","E","A">>>>, <<<<"s","e","a">>, <<"S","E","A">>>>,
    <<<<"d","u","c","k","s">>, <<"A","N","A">>>>, <<<<"a","n","a","h","e","i","m">>, <<"A","N","A">>>>, <<<<"a","n","a">>, <<"A","N","A">>>>,
    <<<<"f","l","a","m","e","s">>, <<"C","G","Y">>>>, <<<<"c","a","l","g","a","r","y">>, <<"C","G","Y">>>>, <<<<"c","g","y">>, <<"C","G","Y">>>>,
    <<<<"c","a","n","u","c","k","s">>, <<"V","A","N">>>>, <<<<"v","a","n","c","o","u","v","e","r">>, <<"V","A","N">>>>, <<<<"v","a","n">>, <<"V","A","N">>>>,
    <<<<"k","i","n","g","s">>, <<"L","A","K">>>>, <<<<"l","o","s","a","n","g","e","l","e","s">>, <<"L","A","K">>>>, <<<<"l","a","k">>, <<"L","A","K">>>>,
    <<<<"j","e","t","s">>, <<"W","P","G">>>>, <<<<"w","i","n","n","i","p","e","g">>, <<"W","P","G">>>>, <<<<"w","p","g">>, <<"W","P","G">>>>,
    <<<<"p","r","e","d","a","t","o","r","s">>, <<"N","S","H">>>>, <<<<"n","a","s","h","v","i","l","l","e">>, <<"N","S","H">>>>, <<<<"n","s","h">>, <<"N","S","H">>>>,
    <<<<"b","l","u","e","s">>, <<"S","T","L">>>>, <<<<"s","t","l","o","u","i","s">>, <<"S","T","L">>>>, <<<<"s","t","l">>, <<"S","T","L">>>>,
    <<<<"b","l","a","c","k","h","a","w","k","s">>, <<"C","H","I">>>>, <<<<"c","h","i","c","a","g","o">>, <<"C","H","I">>>>, <<<<"c","h","i">>, <<"C","H","I">>>>,
    <<<<"m","a","m","m","o","t","h">>, <<"U","T","A">>>>, <<<<"u","t","a","h">>, <<"U","T","A">>>>, <<<<"u","t","a">>, <<"U","T","A">>>>,
    <<<<"p","a","n","t","h","e","r","s">>, <<"F","L","A">>>>, <<<<"f","l","o","r","i","d","a">>, <<"F","L","A">>>>, <<<<"f","l","a">>, <<"F","L","A">>>>,
    <<<<"r","e","d","w","i","n","g","s">>, <<"D","E","T">>>>, <<<<"d","e","t","r","o","i","t">>, <<"D","E","T">>>>, <<<<"d","e","t">>, <<"D","E","T">>>>,
    <<<<"s","e","n","a","t","o","r","s">>, <<"O","T","T">>>>, <<<<"o","t","t","a","w","a">>, <<"O","T","T">>>>, <<<<"o","t","t">>, <<"O","T","T">>>>,
    <<<<"m","a","p","l","e","l","e","a","f","s">>, <<"T","O","R">>>>, <<<<"t","o","r","o","n","t","o">>, <<"T","O","R">>>>, <<<<"t","o","r">>, <<"T","O","R">>>>,
    <<<<"r","a","n","g","e","r","s">>, <<"N","Y","R">>>>, <<<<"n","e","w","y","o","r","k">>, <<"N","Y","R">>>>, <<<<"n","y","r">>, <<"N","Y","R">>>>,
    <<<<"i","s","l","a","n","d","e","r","s">>, <<"N","Y","I">>>>, <<<<"n","y","i">>, <<"N","Y","I">>>>,
    <<<<"d","e","v","i","l","s">>, <<"N","J","D">>>>, <<<<"n","e","w","j","e","r","s","e","y">>, <<"N","J","D">>>>, <<<<"n","j","d">>, <<"N","J","D">>>>,
    <<<<"f","l","y","e","r","s">>, <<"P","H","I">>>>, <<<<"p","h","i","l","a","d","e","l","p","h","i","a">>, <<"P","H","I">>>>, <<<<"p","h","i">>, <<"P","H","I">>>>,
    <<<<"c","a","p","i","t","a","l","s">>, <<"W","S","H">>>>, <<<<"w","a","s","h","i","n","g","t","o","n">>, <<"W","S","H">>>>, <<<<"w","s","h">>, <<"W","S","H">>>>,
    <<<<"b","l","u","e","j","a","c","k","e","t","s">>, <<"C","B","J">>>>, <<<<"c","o","l","u","m","b","u","s">>, <<"C","B","J">>>>, <<<<"c","b","j">>, <<"C","B","J">>>>
}

TeamKeys == {e[1] : e \in TeamEntries}

\* const TEAMS: Record<string, string>
TEAMS == [k \in TeamKeys |-> (CHOOSE e \in TeamEntries : e[1] = k)[2]]

\* a string value, as resolveTeam returns it
StringValue(s) == [t |-> "string", s |-> s]

\* const normalized = input.toLowerCase().replace(/\s+/g, '')
NormalizeKeepsWhitespace(input) == toLowerCase(input)

Normalize(input) == replaceWhitespace(toLowerCase(input))

\* TEAMS[normalized] || input.toUpperCase()
resolveTeam(input) ==
  LET normalized == Normalize(input) IN
  IF normalized \in DOMAIN TEAMS THEN StringValue(TEAMS[normalized])
  ELSE StringValue(toUpperCase(input))

(***************************************************************************)
(* JavaScript values.  A string value that the handlers only copy or join  *)
(* is a sequence of chunks; a template literal concatenates the chunks of  *)
(* its parts.  Throw is the abrupt completion of an expression.            *)
(***************************************************************************)
Undef == [t |-> "undefined"]

Null == [t |-> "null"]

Num(n) == [t |-> "number", n |-> n]

Str(chunks) == [t |-> "string", s |-> chunks]

Bool(b) == [t |-> "boolean", b |-> b]

Obj(f) == [t |-> "object", f |-> f]

Arr(a) == [t |-> "array", a |-> a]

Throw(e) == [t |-> "throw", e |-> e]

\* an Error object: its class name and its message
Err(name, message) == [name |-> name, message |-> message]

\* the TypeError of a property read on undefined
TypeError == Throw(Err("TypeError", <<"Cannot read properties of undefined">>))

EmptyObj == Obj([k \in {} |-> Undef])

IsThrow(v) == v.t = "throw"

IsNullish(v) == v.t \in {"undefined", "null"}

\* ToBoolean
Truthy(v) ==
  CASE v.t \in {"undefined", "null"} -> FALSE
    [] v.t = "boolean" -> v.b
    [] v.t = "number" -> v.n # 0
    [] v.t = "string" -> \E i \in 1..Len(v.s) : v.s[i] # ""
    [] OTHER -> TRUE

\* v.k : a property read; reading a property of undefined or null throws
Get(v, k) ==
  CASE IsThrow(v) -> v
    [] IsNullish(v) -> TypeError
    [] v.t = "object" -> IF k \in DOMAIN v.f THEN v.f[k] ELSE Undef
    [] OTHER -> Undef

\* v?.k : optional chaining
Opt(v, k) == IF IsNullish(v) THEN Undef ELSE Get(v, k)

\* a || b
Or(a, b) == IF IsThrow(a) THEN a ELSE IF Truthy(a) THEN a ELSE b

\* String(v), as a template literal applies it to a substitution
ToStr(v) ==
  CASE v.t = "undefined" -> <<"undefined">>
    [] v.t = "null" -> <<"null">>
    [] v.t = "boolean" -> IF v.b THEN <<"true">> ELSE <<"false">>
    [] v.t = "number" -> <<ToString(v.n)>>
    [] v.t = "string" -> v.s
    [] v.t = "array" -> <<"[array]">>
    [] OTHER -> <<"[object Object]">>

\* `${a}${b}...` with literal text between the substitutions given as strings
RECURSIVE TemplateChunks(_)
TemplateChunks(parts) ==
  IF parts = <<>> THEN <<>>
  ELSE ToStr(Head(parts)) \o TemplateChunks(Tail(parts))

Template(parts) ==
  IF \E i \in 1..Len(parts) : IsThrow(parts[i])
  THEN (CHOOSE v \in {parts[i] : i \in 1..Len(parts)} : IsThrow(v))
  ELSE Str(TemplateChunks(parts))

\* an object literal { k1: e1, ... }: a throwing member aborts the literal
Lit(fields) ==
  IF \E k \in DOMAIN fields : IsThrow(fields[k])
  THEN (CHOOSE v \in {fields[k] : k \in DOMAIN fields} : IsThrow(v))
  ELSE Obj(fields)

\* arr.slice(0, n) on a value; a nullish receiver throws
Slice(v, n) ==
  CASE IsThrow(v) -> v
    [] IsNullish(v) -> TypeError
    [] v.t = "array" ->
         Arr(IF n >= Len(v.a) THEN v.a ELSE IF n <= 0 THEN <<>> ELSE SubSeq(v.a, 1, n))
    [] OTHER -> TypeError

\* arr.slice(-n)
SliceLast(v, n) ==
  CASE IsThrow(v) -> v
    [] IsNullish(v) -> TypeError
    [] v.t = "array" ->
         Arr(IF n >= Len(v.a) THEN v.a ELSE SubSeq(v.a, Len(v.a) - n + 1, Len(v.a)))
    [] OTHER -> TypeError

\* arr.map((x, idx) => F(x, idx)); a receiver that is no array throws
Map(v, F(_, _)) ==
  CASE IsThrow(v) -> v
    [] v.t = "array" ->
         LET results == [i \in 1..Len(v.a) |-> F(v.a[i], i - 1)] IN
         IF \E i \in 1..Len(results) : IsThrow(results[i])
         THEN (CHOOSE x \in {results[i] : i \in 1..Len(results)} : IsThrow(x))
         ELSE Arr(results)
    [] OTHER -> TypeError

\* recv?.map(F): undefined for a nullish receiver
OptMap(v, F(_, _)) == IF IsNullish(v) THEN Undef ELSE Map(v, F)

\* arr.filter(P) for a predicate that may throw (P yields Bool or Throw)
FilterSeq(s, P(_)) == SelectSeq(s, LAMBDA x : Truthy(P(x)))

Filter(v, P(_)) ==
  CASE IsThrow(v) -> v
    [] v.t = "array" ->
         IF \E i \in 1..Len(v.a) : IsThrow(P(v.a[i]))
         THEN (CHOOSE r \in {P(v.a[i]) : i \in 1..Len(v.a)} : IsThrow(r))
         ELSE Arr(FilterSeq(v.a, P))
    [] OTHER -> TypeError

\* arr.find(P): the predicate runs on the elements up to the first match
Find(v, P(_)) ==
  CASE IsThrow(v) -> v
    [] v.t = "array" ->
         LET hits == {i \in 1..Len(v.a) :
                        /\ ~IsThrow(P(v.a[i])) /\ Truthy(P(v.a[i]))}
             bad == {i \in 1..Len(v.a) : IsThrow(P(v.a[i]))}
             Min(S) == CHOOSE i \in S : \A j \in S : i <= j
         IN IF bad # {} /\ (hits = {} \/ Min(bad) < Min(hits)) THEN P(v.a[Min(bad)])
            ELSE IF hits = {} THEN Undef
            ELSE v.a[Min(hits)]
    [] OTHER -> TypeError

\* recv?.find(P)
OptFind(v, P(_)) == IF IsNullish(v) THEN Undef ELSE Find(v, P)

\* a === b on primitive values
StrictEq(a, b) ==
  IF IsThrow(a) THEN a ELSE IF IsThrow(b) THEN b ELSE Bool(a = b)

\* v.length of an array
Length(v) ==
  CASE IsThrow(v) -> v
    [] IsNullish(v) -> TypeError
    [] v.t = "array" -> Num(Len(v.a))
    [] OTHER -> Undef

(***************************************************************************)
(* Errors and handler results                                              *)
(***************************************************************************)
\* fetch() rejects when the network fails
NetworkError == Err("TypeError", <<"fetch failed">>)

\* response.json() rejects on a body that is no JSON
JsonSyntaxError == Err("SyntaxError", <<"Unexpected token">>)

\* return { output }
Returned(output) == [kind |-> "output", output |-> output]

\* the handler's promise rejects with e
Thrown(e) == [kind |-> "error", error |-> e]

\* the completion of a handler body that evaluates to v
Completion(v) == IF IsThrow(v) THEN Thrown(v.e) ELSE Returned(v)

\* new Date().toISOString()
NowISO == Str(<<"<now>">>)

\* an object without one of its properties
Without(o, k) == Obj([x \in (DOMAIN o.f) \ {k} |-> o.f[x]])

\* a one-chunk string value
S(text) == Str(<<text>>)

\* { default: text }
Localized(text) == Obj([default |-> text])

(***************************************************************************)
(* NHL agent: the handlers' bodies after their fetches, as functions of    *)
(* the validated input and of the values the fetches produced              *)
(***************************************************************************)
EmptyArr == Arr(<<>>)

\* p => ({ name: `${p.firstName.default} ${p.lastName.default}`, ... })
PlayerName(p) ==
  Template(<<Get(Get(p, "firstName"), "default"), S(" "),
             Get(Get(p, "lastName"), "default")>>)

\* `${t.wins}-${t.losses}-${t.otLosses}`
Record3(a, b, c) == Template(<<a, S("-"), b, S("-"), c>>)

\* `${t.streakCode}${t.streakCount}`
Streak(t) == Template(<<Get(t, "streakCode"), Get(t, "streakCount")>>)

\* overview: topTeams
OverviewTopTeams(standings) ==
  Map(Slice(Get(standings, "standings"), 5), LAMBDA t, idx :
    Lit([team |-> Get(Get(t, "teamAbbrev"), "default"),
         points |-> Get(t, "points"),
         wins |-> Get(t, "wins"),
         losses |-> Get(t, "losses"),
         otLosses |-> Get(t, "otLosses"),
         goalDiff |-> Get(t, "goalDifferential")]))

\* overview: topScorers
OverviewTopScorers(leaders) ==
  LET points == Get(leaders, "points") IN
  Or(IF IsNullish(points) THEN Undef
     ELSE Map(Slice(points, 5), LAMBDA p, idx :
            Lit([name |-> PlayerName(p),
                 team |-> Get(p, "teamAbbrev"),
                 points |-> Get(p, "value")])),
     EmptyArr)

\* overview: todayGames
OverviewTodayGames(scores) ==
  LET games == Get(scores, "games") IN
  Or(IF IsNullish(games) THEN Undef
     ELSE Map(Slice(games, 5), LAMBDA g, idx :
            Lit([home |-> Or(Opt(Get(g, "homeTeam"), "abbrev"), S("TBD")),
                 away |-> Or(Opt(Get(g, "awayTeam"), "abbrev"), S("TBD")),
                 state |-> Get(g, "gameState"),
                 homeScore |-> Opt(Get(g, "homeTeam"), "score"),
                 awayScore |-> Opt(Get(g, "awayTeam"), "score")])),
     EmptyArr)

\* the overview handler's body after Promise.all
NHLOverviewBody(input, r) ==
  Lit([topTeams |-> OverviewTopTeams(r[1]),
       topScorers |-> OverviewTopScorers(r[2]),
       todayGames |-> OverviewTodayGames(r[3]),
       fetchedAt |-> NowISO,
       dataSource |-> S("NHL Official API (live)")])

\* const conf = ctx.input.conference === 'eastern' ? 'E' : 'W'
ConfTag(conference) == IF conference = S("eastern") THEN S("E") ELSE S("W")

\* standings: data.standings.map(...)
StandingsRows(data) ==
  Map(Get(data, "standings"), LAMBDA t, idx :
    Lit([team |-> Get(Get(t, "teamAbbrev"), "default"),
         teamName |-> Get(Get(t, "teamName"), "default"),
         conference |-> Get(t, "conferenceAbbrev"),
         division |-> Get(t, "divisionName"),
         gamesPlayed |-> Get(t, "gamesPlayed"),
         wins |-> Get(t, "wins"),
         losses |-> Get(t, "losses"),
         otLosses |-> Get(t, "otLosses"),
         points |-> Get(t, "points"),
         pointPctg |-> Get(t, "pointPctg"),
         goalFor |-> Get(t, "goalFor"),
         goalAgainst |-> Get(t, "goalAgainst"),
         goalDifferential |-> Get(t, "goalDifferential"),
         streak |-> Streak(t),
         last10 |-> Record3(Get(t, "l10Wins"), Get(t, "l10Losses"),
                            Get(t, "l10OtLosses"))]))

\* standings: the conference filter
StandingsFilterNone(rows, conference) == rows

StandingsFilter(rows, conference) ==
  IF conference # S("all")
  THEN Filter(rows, LAMBDA t : StrictEq(Get(t, "conference"), ConfTag(conference)))
  ELSE rows

\* the standings handler's body after its fetch
NHLStandingsBody(input, r) ==
  LET standings == StandingsFilter(StandingsRows(r[1]), input.conference) IN
  Lit([standings |-> standings,
       asOf |-> Get(r[1], "standingsDateTimeUtc"),
       count |-> Length(standings)])

\* the player handler's body after its fetch
NHLPlayerBody(input, r) ==
  LET data == r[1]
      regular == Opt(Opt(data, "featuredStats"), "regularSeason")
      stats == Or(Opt(regular, "subSeason"), EmptyObj)
      career == Or(Opt(regular, "career"), EmptyObj)
  IN Lit([
    player |-> Lit([
      id |-> Get(data, "playerId"),
      name |-> PlayerName(data),
      team |-> Get(data, "currentTeamAbbrev"),
      teamName |-> Opt(Get(data, "fullTeamName"), "default"),
      number |-> Get(data, "sweaterNumber"),
      position |-> Get(data, "position"),
      birthDate |-> Get(data, "birthDate"),
      birthCity |-> Opt(Get(data, "birthCity"), "default"),
      birthCountry |-> Get(data, "birthCountry"),
      height |-> Get(data, "heightInCentimeters"),
      weight |-> Get(data, "weightInKilograms"),
      shoots |-> Get(data, "shootsCatches")]),
    currentSeason |-> Lit([
      gamesPlayed |-> Get(stats, "gamesPlayed"),
      goals |-> Get(stats, "goals"),
      assists |-> Get(stats, "assists"),
      points |-> Get(stats, "points"),
      plusMinus |-> Get(stats, "plusMinus"),
      pim |-> Get(stats, "pim"),
      powerPlayGoals |-> Get(stats, "powerPlayGoals"),
      gameWinningGoals |-> Get(stats, "gameWinningGoals"),
      shots |-> Get(stats, "shots"),
      shootingPctg |-> Get(stats, "shootingPctg")]),
    career |-> Lit([
      gamesPlayed |-> Get(career, "gamesPlayed"),
      goals |-> Get(career, "goals"),
      assists |-> Get(career, "assists"),
      points |-> Get(career, "points")]),
    headshot |-> Get(data, "headshot")])

\* leaders: categoryData.slice(0, ctx.input.limit)
LeadersSliceAll(categoryData, limit) == categoryData

LeadersSlice(categoryData, limit) == Slice(categoryData, limit.n)

\* leaders: .map((p, idx) => ({ rank: idx + 1, ... }))
LeadersRows(sliced) ==
  Map(sliced, LAMBDA p, idx :
    Lit([rank |-> Num(idx + 1),
         name |-> PlayerName(p),
         team |-> Get(p, "teamAbbrev"),
         position |-> Get(p, "position"),
         value |-> Get(p, "value")]))

\* the leaders handler's body after its fetch
NHLLeadersBody(input, r) ==
  LET categoryData == Or(Get(r[1], input.category.s[1]), EmptyArr)
      leaders == LeadersRows(LeadersSlice(categoryData, input.limit))
  IN Lit([category |-> input.category,
          leaders |-> leaders,
          count |-> Length(leaders),
          fetchedAt |-> NowISO])

\* team: const formatPlayer = (p) => ({ ... })
FormatPlayer(p) ==
  Lit([id |-> Get(p, "id"),
       name |-> PlayerName(p),
       number |-> Get(p, "sweaterNumber"),
       position |-> Get(p, "positionCode"),
       birthCountry |-> Get(p, "birthCountry")])

\* team: roster.forwards?.map(formatPlayer) || []
RosterGroup(roster, group) ==
  Or(OptMap(Get(roster, group), LAMBDA p, idx : FormatPlayer(p)), EmptyArr)

\* team: schedule.games?.slice(-5).map(...) || []
TeamRecentGames(schedule, teamAbbrev) ==
  LET games == Get(schedule, "games") IN
  Or(IF IsNullish(games) THEN Undef
     ELSE Map(SliceLast(games, 5), LAMBDA g, idx :
       LET homeAbbrev == Opt(Get(g, "homeTeam"), "abbrev")
           isHome == StrictEq(homeAbbrev, teamAbbrev)
       IN Lit([date |-> Get(g, "gameDate"),
               opponent |-> IF IsThrow(isHome) THEN isHome
                            ELSE IF isHome.b THEN Opt(Get(g, "awayTeam"), "abbrev")
                            ELSE homeAbbrev,
               home |-> isHome,
               result |-> Opt(Get(g, "gameOutcome"), "lastPeriodType")])),
     EmptyArr)

\* the team handler's body after Promise.all
NHLTeamBody(input, r) ==
  LET teamAbbrev == resolveTeam(input.team.s)
      roster == r[1]
      standings == r[2]
      schedule == r[3]
      teamStanding == Find(Get(standings, "standings"), LAMBDA t :
                        StrictEq(Get(Get(t, "teamAbbrev"), "default"), teamAbbrev))
  IN Lit([
    team |-> Lit([
      abbrev |-> teamAbbrev,
      name |-> Opt(Opt(teamStanding, "teamName"), "default"),
      conference |-> Opt(teamStanding, "conferenceName"),
      division |-> Opt(teamStanding, "divisionName")]),
    standing |->
      IF IsThrow(teamStanding) THEN teamStanding
      ELSE IF Truthy(teamStanding) THEN Lit([
        leagueRank |-> Get(teamStanding, "leagueSequence"),
        conferenceRank |-> Get(teamStanding, "conferenceSequence"),
        divisionRank |-> Get(teamStanding, "divisionSequence"),
        points |-> Get(teamStanding, "points"),
        record |-> Record3(Get(teamStanding, "wins"), Get(teamStanding, "losses"),
                           Get(teamStanding, "otLosses")),
        goalDiff |-> Get(teamStanding, "goalDifferential"),
        streak |-> Streak(teamStanding)])
      ELSE Null,
    roster |-> Lit([
      forwards |-> RosterGroup(roster, "forwards"),
      defensemen |-> RosterGroup(roster, "defensemen"),
      goalies |-> RosterGroup(roster, "goalies")]),
    recentGames |-> TeamRecentGames(schedule, teamAbbrev)])

\* report: filteredStandings
ReportFilteredStandings(standings, conference) ==
  IF conference # S("all")
  THEN Filter(Get(standings, "standings"), LAMBDA t :
         StrictEq(Get(t, "conferenceAbbrev"), ConfTag(conference)))
  ELSE Get(standings, "standings")

\* report: standingsSummary
ReportStandingsSummary(filteredStandings) ==
  Map(filteredStandings, LAMBDA t, idx :
    Lit([rank |-> Get(t, "leagueSequence"),
         team |-> Get(Get(t, "teamAbbrev"), "default"),
         points |-> Get(t, "points"),
         record |-> Record3(Get(t, "wins"), Get(t, "losses"), Get(t, "otLosses")),
         goalDiff |-> Get(t, "goalDifferential"),
         last10 |-> Record3(Get(t, "l10Wins"), Get(t, "l10Losses"),
                            Get(t, "l10OtLosses")),
         streak |-> Streak(t)]))

\* report: skaterLeaders.goals?.slice(0, 5).map(...) || []
ReportTop(leaders, category, valueKey) ==
  LET list == Get(leaders, category) IN
  Or(IF IsNullish(list) THEN Undef
     ELSE Map(Slice(list, 5), LAMBDA p, idx :
            Lit([k \in {"name", "team", valueKey} |->
                   CASE k = "name" -> PlayerName(p)
                     [] k = "team" -> Get(p, "teamAbbrev")
                     [] OTHER -> Get(p, "value")])),
     EmptyArr)

\* report: todayGames
ReportTodayGames(scores) ==
  OptMap(Get(scores, "games"), LAMBDA g, idx :
    Lit([gameId |-> Get(g, "id"),
         home |-> Opt(Get(g, "homeTeam"), "abbrev"),
         away |-> Opt(Get(g, "awayTeam"), "abbrev"),
         state |-> Get(g, "gameState"),
         homeScore |-> Opt(Get(g, "homeTeam"), "score"),
         awayScore |-> Opt(Get(g, "awayTeam"), "score"),
         startTime |-> Get(g, "startTimeUTC"),
         venue |-> Opt(Get(g, "venue"), "default")]))

\* the report handler's body after Promise.all
NHLReportBody(input, r) ==
  LET standingsSummary ==
        ReportStandingsSummary(ReportFilteredStandings(r[1], input.conference))
      todayGames == Or(ReportTodayGames(r[4]), EmptyArr)
  IN Lit([
    standings |-> standingsSummary,
    leaders |-> Lit([
      goals |-> ReportTop(r[2], "goals", "value"),
      assists |-> ReportTop(r[2], "assists", "value"),
      points |-> ReportTop(r[2], "points", "value"),
      goalies |-> ReportTop(r[3], "savePctg", "savePctg")]),
    todaySchedule |-> todayGames,
    summary |-> Lit([
      teamsCount |-> Length(standingsSummary),
      gamesCount |-> Length(todayGames),
      asOf |-> Get(r[1], "standingsDateTimeUtc")]),
    generatedAt |-> NowISO])

(***************************************************************************)
(* ESPN agent: the handlers' bodies after their fetches                    *)
(***************************************************************************)
\* v?.[0]
OptFirst(v) ==
  CASE IsThrow(v) -> v
    [] IsNullish(v) -> Undef
    [] v.t = "array" -> IF v.a = <<>> THEN Undef ELSE v.a[1]
    [] OTHER -> Undef

\* competition?.competitors?.find((c) => c.homeAway === side)
Competitor(competition, side) ==
  OptFind(Opt(competition, "competitors"), LAMBDA c :
    StrictEq(Get(c, "homeAway"), S(side)))

\* e.stats?.find((s) => s.name === name)?.value
Stat(e, name) ==
  Opt(OptFind(Get(e, "stats"), LAMBDA s : StrictEq(Get(s, "name"), S(name))), "value")

\* overview: todaysGames
ESPNTodaysGames(scoreboard) ==
  Or(OptMap(Get(scoreboard, "events"), LAMBDA e, idx :
       LET competition == OptFirst(Get(e, "competitions")) IN
       Lit([name |-> Get(e, "name"),
            date |-> Get(e, "date"),
            status |-> Opt(Opt(Get(e, "status"), "type"), "description"),
            homeTeam |-> Opt(Opt(Competitor(competition, "home"), "team"), "displayName"),
            awayTeam |-> Opt(Opt(Competitor(competition, "away"), "team"), "displayName"),
            homeScore |-> Opt(Competitor(competition, "home"), "score"),
            awayScore |-> Opt(Competitor(competition, "away"), "score")])),
     EmptyArr)

\* overview: topTeams
ESPNTopTeams(standingsRes) ==
  LET children == Get(standingsRes, "children") IN
  Or(IF IsNullish(children) THEN Undef
     ELSE Map(Slice(children, 2), LAMBDA conf, idx :
       LET entries == Opt(Get(conf, "standings"), "entries") IN
       Lit([conference |-> Get(conf, "name"),
            leaders |->
              IF IsNullish(entries) THEN Undef
              ELSE Map(Slice(entries, 5), LAMBDA e, j :
                Lit([team |-> Opt(Get(e, "team"), "displayName"),
                     wins |-> Stat(e, "wins"),
                     losses |-> Stat(e, "losses"),
                     points |-> Stat(e, "points")]))])),
     EmptyArr)

\* the overview handler's body after Promise.all
ESPNOverviewBody(input, r) ==
  Lit([todaysGames |-> ESPNTodaysGames(r[1]),
       topTeams |-> ESPNTopTeams(r[2]),
       fetchedAt |-> NowISO,
       dataSource |-> S("ESPN NHL API (live)")])

\* scores: one side of a game
ScoresSide(side) ==
  Lit([name |-> Opt(Opt(side, "team"), "displayName"),
       abbreviation |-> Opt(Opt(side, "team"), "abbreviation"),
       score |-> Opt(side, "score"),
       record |-> Opt(OptFirst(Opt(side, "records")), "summary")])

\* scores: data.events?.map(...) || []
ScoresGames(data) ==
  Or(OptMap(Get(data, "events"), LAMBDA e, idx :
       LET competition == OptFirst(Get(e, "competitions")) IN
       Lit([id |-> Get(e, "id"),
            name |-> Get(e, "name"),
            date |-> Get(e, "date"),
            status |-> Opt(Opt(Get(e, "status"), "type"), "description"),
            period |-> Opt(Get(e, "status"), "period"),
            clock |-> Opt(Get(e, "status"), "displayClock"),
            homeTeam |-> ScoresSide(Competitor(competition, "home")),
            awayTeam |-> ScoresSide(Competitor(competition, "away")),
            venue |-> Opt(Opt(competition, "venue"), "fullName"),
            broadcast |-> OptFirst(Opt(OptFirst(Opt(competition, "broadcasts")),
                                       "names"))])),
     EmptyArr)

\* the scores handler's body after its fetch
ESPNScoresBody(input, r) ==
  LET games == ScoresGames(r[1]) IN
  Lit([games |-> games, count |-> Length(games), fetchedAt |-> NowISO])

\* team: the rows pushed for one position group
RosterItems(posGroup) ==
  LET items == Get(posGroup, "items") IN
  IF IsThrow(items) THEN items
  ELSE IF ~Truthy(items) THEN EmptyArr
  ELSE Map(items, LAMBDA player, idx :
    Lit([name |-> Get(player, "fullName"),
         position |-> Opt(Get(player, "position"), "abbreviation"),
         jersey |-> Get(player, "jersey"),
         age |-> Get(player, "age"),
         birthPlace |-> Opt(Get(player, "birthPlace"), "country")]))

\* team: rosterData after the two loops
RECURSIVE RosterData(_)
RosterData(groups) ==
  IF groups = <<>> THEN EmptyArr
  ELSE LET first == RosterItems(Head(groups))
           rest == RosterData(Tail(groups))
       IN IF IsThrow(first) THEN first
          ELSE IF IsThrow(rest) THEN rest
          ELSE Arr(first.a \o rest.a)

\* the team handler's body after Promise.all
ESPNTeamBody(input, r) ==
  LET team == r[1]
      roster == r[2]
      athletes == Get(roster, "athletes")
      rosterData == IF IsThrow(athletes) THEN athletes
                    ELSE IF athletes.t = "array" THEN RosterData(athletes.a)
                    ELSE EmptyArr
      t == Get(team, "team")
  IN Lit([
    team |-> Lit([
      id |-> Opt(t, "id"),
      name |-> Opt(t, "displayName"),
      abbreviation |-> Opt(t, "abbreviation"),
      location |-> Opt(t, "location"),
      color |-> Opt(t, "color"),
      logo |-> Opt(OptFirst(Opt(t, "logos")), "href"),
      venue |-> Opt(Opt(Opt(t, "franchise"), "venue"), "fullName"),
      record |-> Opt(OptFirst(Opt(Opt(t, "record"), "items")), "summary")]),
    roster |-> Slice(rosterData, 25),
    fetchedAt |-> NowISO])

\* the characters of the conference names the input schema admits
EnumChars(word) ==
  CASE word = S("eastern") -> <<"e","a","s","t","e","r","n">>
    [] word = S("western") -> <<"w","e","s","t","e","r","n">>
    [] OTHER -> <<"a","l","l">>

\* hay.includes(needle) on character sequences
Includes(hay, needle) ==
  \E i \in 1..(Len(hay) + 1) :
    /\ i + Len(needle) - 1 <= Len(hay)
    /\ SubSeq(hay, i, i + Len(needle) - 1) = needle

\* s.conference.toLowerCase().includes(ctx.input.conference)
ConferenceMatches(s, conference) ==
  LET name == Get(s, "conference") IN
  CASE IsThrow(name) -> name
    [] name.t = "string" -> Bool(Includes(toLowerCase(name.s), EnumChars(conference)))
    [] OTHER -> TypeError

\* standings: data.children?.map(...) || []
ESPNStandingsRows(data) ==
  Or(OptMap(Get(data, "children"), LAMBDA conf, idx :
       Lit([conference |-> Get(conf, "name"),
            teams |->
              Or(OptMap(Opt(Get(conf, "standings"), "entries"), LAMBDA e, j :
                   Lit([rank |-> Stat(e, "playoffSeed"),
                        team |-> Opt(Get(e, "team"), "displayName"),
                        abbreviation |-> Opt(Get(e, "team"), "abbreviation"),
                        gamesPlayed |-> Stat(e, "gamesPlayed"),
                        wins |-> Stat(e, "wins"),
                        losses |-> Stat(e, "losses"),
                        otLosses |-> Stat(e, "otLosses"),
                        points |-> Stat(e, "points"),
                        goalsFor |-> Stat(e, "pointsFor"),
                        goalsAgainst |-> Stat(e, "pointsAgainst")])),
                 EmptyArr)])),
     EmptyArr)

\* the standings handler's body after its fetch
ESPNStandingsBody(input, r) ==
  LET standings == ESPNStandingsRows(r[1])
      filtered == IF input.conference = S("all") THEN standings
                  ELSE Filter(standings, LAMBDA s :
                         ConferenceMatches(s, input.conference))
  IN Lit([standings |-> filtered, fetchedAt |-> NowISO])

\* what `await fetch(url)` leaves the player handler with when !response.ok
NotOk(status) == [t |-> "notok", status |-> status]

\* the player handler's body after its fetch and its response.json()
ESPNPlayerBody(input, r) ==
  LET data == r[1]
      athlete == Get(data, "athlete")
  IN
  IF data.t = "notok"
  THEN Lit([error |-> Str(<<"Player not found (", ToString(data.status), ")">>),
            playerId |-> input.playerId])
  ELSE IF IsThrow(athlete) THEN athlete
  ELSE IF Truthy(Get(data, "code")) \/ ~Truthy(athlete)
  THEN Lit([error |-> S("Player not found"), playerId |-> input.playerId])
  ELSE Lit([
    player |-> Lit([
      id |-> Opt(athlete, "id"),
      name |-> Opt(athlete, "displayName"),
      firstName |-> Opt(athlete, "firstName"),
      lastName |-> Opt(athlete, "lastName"),
      jersey |-> Opt(athlete, "jersey"),
      position |-> Opt(Opt(athlete, "position"), "displayName"),
      team |-> Opt(Opt(athlete, "team"), "displayName"),
      age |-> Opt(athlete, "age"),
      height |-> Opt(athlete, "displayHeight"),
      weight |-> Opt(athlete, "displayWeight"),
      birthDate |-> Opt(athlete, "dateOfBirth"),
      birthPlace |->
        IF Truthy(Opt(athlete, "birthPlace"))
        THEN Template(<<Get(Get(athlete, "birthPlace"), "city"), S(", "),
                        Get(Get(athlete, "birthPlace"), "country")>>)
        ELSE Null,
      experience |-> Opt(Opt(athlete, "experience"), "years"),
      status |-> Opt(Opt(athlete, "status"), "type")]),
    stats |-> LET statistics == Opt(athlete, "statistics") IN
              IF IsNullish(statistics) THEN Undef ELSE Slice(statistics, 3),
    fetchedAt |-> NowISO])

\* schedule: const dayGames = data.events?.map(...) || []
ScheduleDayGames(data) ==
  Or(OptMap(Get(data, "events"), LAMBDA e, idx :
       LET competition == OptFirst(Get(e, "competitions")) IN
       Lit([id |-> Get(e, "id"),
            name |-> Get(e, "name"),
            date |-> Get(e, "date"),
            status |-> Opt(Opt(Get(e, "status"), "type"), "description"),
            venue |-> Opt(Opt(competition, "venue"), "fullName"),
            broadcast |-> OptFirst(Opt(OptFirst(Opt(competition, "broadcasts")),
                                       "names"))])),
     EmptyArr)

\* schedule: return { output: { schedule: games, count: games.length, ... } }
ESPNScheduleOutput(games) ==
  Lit([schedule |-> Arr(games), count |-> Num(Len(games)), fetchedAt |-> NowISO])

\* the game handler's body after Promise.all
ESPNGameBody(input, r) ==
  LET summary == r[1]
      competition == OptFirst(Opt(Get(summary, "header"), "competitions"))
      home == Competitor(competition, "home")
      away == Competitor(competition, "away")
      scoringPlays ==
        Or(OptMap(Get(summary, "scoringPlays"), LAMBDA p, idx :
             Lit([period |-> Opt(Get(p, "period"), "number"),
                  time |-> Opt(Get(p, "clock"), "displayValue"),
                  team |-> Opt(Get(p, "team"), "abbreviation"),
                  description |-> Get(p, "text"),
                  score |-> Template(<<Get(p, "awayScore"), S("-"),
                                       Get(p, "homeScore")>>)])),
           EmptyArr)
      teamStats ==
        Or(OptMap(Opt(Get(summary, "boxscore"), "teams"), LAMBDA t, idx :
             Lit([team |-> Opt(Get(t, "team"), "abbreviation"),
                  stats |-> OptMap(Get(t, "statistics"), LAMBDA s, j :
                              Lit([name |-> Get(s, "name"),
                                   value |-> Get(s, "displayValue")]))])),
           EmptyArr)
  IN Lit([
    game |-> Lit([
      id |-> input.gameId,
      name |-> Or(Opt(Get(summary, "header"), "gameNote"),
                  Template(<<Opt(Opt(away, "team"), "displayName"), S(" @ "),
                             Opt(Opt(home, "team"), "displayName")>>)),
      date |-> Opt(competition, "date"),
      status |-> Opt(Opt(Opt(competition, "status"), "type"), "description"),
      venue |-> Opt(Opt(Get(summary, "gameInfo"), "venue"), "fullName"),
      attendance |-> Opt(Get(summary, "gameInfo"), "attendance")]),
    score |-> Lit([
      home |-> Lit([team |-> Opt(Opt(home, "team"), "displayName"),
                    score |-> Opt(home, "score")]),
      away |-> Lit([team |-> Opt(Opt(away, "team"), "displayName"),
                    score |-> Opt(away, "score")])]),
    scoringPlays |-> scoringPlays,
    teamStats |-> teamStats,
    fetchedAt |-> NowISO])

(***************************************************************************)
(* The entrypoints: input schemas and fetch plans                          *)
(***************************************************************************)
\* the keys of the addEntrypoint calls that reach an upstream
Ops == {"nhl/overview", "nhl/standings", "nhl/player", "nhl/leaders",
        "nhl/team", "nhl/report",
        "espn/overview", "espn/scores", "espn/team", "espn/standings",
        "espn/player", "espn/schedule", "espn/game"}

\* z.enum([...]).optional().default(d)
ZEnum(values, d) ==
  [type |-> "enum", values |-> {S(v) : v \in values}, range |-> <<>>,
   optional |-> TRUE, default |-> d]

\* z.number(), optionally .min(lo).max(hi) (range <<lo, hi>>) and
\* .optional().default(d)
ZNumber(range, optional, d) ==
  [type |-> "number", values |-> {}, range |-> range,
   optional |-> optional, default |-> d]

\* z.string(), optionally .optional()
ZString(optional) ==
  [type |-> "string", values |-> {}, range |-> <<>>,
   optional |-> optional, default |-> Undef]

\* the `input:` schema of each addEntrypoint call
Schema(op) ==
  CASE op \in {"nhl/standings", "nhl/report", "espn/standings"} ->
         [conference |-> ZEnum({"eastern", "western", "all"}, S("all"))]
    [] op = "nhl/player" -> [playerId |-> ZNumber(<<>>, FALSE, Undef)]
    [] op = "nhl/leaders" ->
         [category |-> ZEnum({"goals", "assists", "points", "plusMinus", "gaa",
                              "savePctg"}, S("points")),
          limit |-> ZNumber(<<1, 25>>, TRUE, Num(10))]
    [] op = "nhl/team" -> [team |-> ZString(FALSE)]
    [] op = "espn/scores" -> [date |-> ZString(TRUE)]
    [] op = "espn/team" -> [teamId |-> ZString(FALSE)]
    [] op = "espn/player" -> [playerId |-> ZString(FALSE)]
    [] op = "espn/schedule" -> [days |-> ZNumber(<<>>, TRUE, Num(3))]
    [] op = "espn/game" -> [gameId |-> ZString(FALSE)]
    [] OTHER -> [k \in {} |-> ZString(TRUE)]

\* whether one schema member accepts the value given for it (Undef: absent)
FieldAccepts(fs, v) ==
  IF v = Undef THEN fs.optional
  ELSE CASE fs.type = "enum" -> v \in fs.values
         [] fs.type = "number" ->
              /\ v.t = "number"
              /\ fs.range # <<>> => (v.n >= fs.range[1] /\ v.n <= fs.range[2])
         [] OTHER -> v.t = "string"

\* the value the handler sees for one member
FieldValue(fs, v) == IF v = Undef THEN fs.default ELSE v

\* schema.safeParse(raw).success
Accepts(op, raw) ==
  \A k \in DOMAIN Schema(op) : FieldAccepts(Schema(op)[k], raw[k])

\* ctx.input
Parsed(op, raw) == [k \in DOMAIN Schema(op) |-> FieldValue(Schema(op)[k], raw[k])]

\* one outbound call of a fetch plan: the function that issues it, the
\* resource it asks for, and the value its .catch() substitutes, if any
Call(fn, resource, caught, fallback) ==
  [fn |-> fn, resource |-> resource, caught |-> caught, fallback |-> fallback]

Required(fn, resource) == Call(fn, resource, FALSE, Undef)

\* leaders: ['gaa', 'savePctg'].includes(ctx.input.category) ? goalie : skater
LeadersResourceSkaterOnly(category) == "nhl/skater-stats-leaders"

LeadersResource(category) ==
  IF category \in {S("gaa"), S("savePctg")}
  THEN "nhl/goalie-stats-leaders" ELSE "nhl/skater-stats-leaders"

\* the calls a handler issues together when it starts
Plan(op, input) ==
  CASE op = "nhl/overview" ->
         <<Required("fetchNHL", "nhl/standings"),
           Required("fetchNHL", "nhl/skater-stats-leaders"),
           Call("fetchNHL", "nhl/score", TRUE, Obj([games |-> EmptyArr]))>>
    [] op = "nhl/standings" -> <<Required("fetchNHL", "nhl/standings")>>
    [] op = "nhl/player" -> <<Required("fetchNHL", "nhl/player-landing")>>
    [] op = "nhl/leaders" -> <<Required("fetchNHL", LeadersResource(input.category))>>
    [] op = "nhl/team" ->
         <<Required("fetchNHL", "nhl/roster"),
           Required("fetchNHL", "nhl/standings"),
           Call("fetchNHL", "nhl/club-schedule-season", TRUE, Obj([games |-> EmptyArr]))>>
    [] op = "nhl/report" ->
         <<Required("fetchNHL", "nhl/standings"),
           Required("fetchNHL", "nhl/skater-stats-leaders"),
           Required("fetchNHL", "nhl/goalie-stats-leaders"),
           Call("fetchNHL", "nhl/score", TRUE, Obj([games |-> EmptyArr]))>>
    [] op = "espn/overview" ->
         <<Required("fetchESPN", "espn/scoreboard"),
           Required("fetch.json", "espn/standings")>>
    [] op = "espn/scores" -> <<Required("fetchESPN", "espn/scoreboard")>>
    [] op = "espn/team" ->
         <<Required("fetch.json", "espn/team"), Required("fetch.json", "espn/roster")>>
    [] op = "espn/standings" -> <<Required("fetch.ok.json", "espn/standings")>>
    [] op = "espn/player" -> <<Required("fetch.player", "espn/athlete")>>
    [] op = "espn/game" ->
         <<Required("fetch.json", "espn/summary"),
           Call("fetch.json", "espn/scoreboard-by-id", TRUE, Null)>>
    [] OTHER -> <<>>

\* the handler body that runs once every call of the plan has fulfilled
Body(op, input, r) ==
  CASE op = "nhl/overview" -> NHLOverviewBody(input, r)
    [] op = "nhl/standings" -> NHLStandingsBody(input, r)
    [] op = "nhl/player" -> NHLPlayerBody(input, r)
    [] op = "nhl/leaders" -> NHLLeadersBody(input, r)
    [] op = "nhl/team" -> NHLTeamBody(input, r)
    [] op = "nhl/report" -> NHLReportBody(input, r)
    [] op = "espn/overview" -> ESPNOverviewBody(input, r)
    [] op = "espn/scores" -> ESPNScoresBody(input, r)
    [] op = "espn/team" -> ESPNTeamBody(input, r)
    [] op = "espn/standings" -> ESPNStandingsBody(input, r)
    [] op = "espn/player" -> ESPNPlayerBody(input, r)
    [] OTHER -> ESPNGameBody(input, r)

\* schedule: const daysToFetch = Math.min(ctx.input.days, 7)
DaysToFetchUnclamped(days) == days.n

DaysToFetch(days) == IF days.n < 7 THEN days.n ELSE 7

(***************************************************************************)
(* The fetch adapters                                                      *)
(***************************************************************************)
\* response.ok
Ok(status) == status >= 200 /\ status <= 299

\* the error a checked fetch throws on a status that is not ok
\* new Error(`NHL API error: ${response.status}`), and the like
ApiError(fn, status) ==
  CASE fn = "fetchNHL" -> Err("Error", <<"NHL API error: ", ToString(status)>>)
    [] fn = "fetchESPN" -> Err("Error", <<"ESPN API error: ", ToString(status)>>)
    [] OTHER -> Err("Error", <<"Standings API error: ", ToString(status)>>)

\* what the code does once fetch() has resolved with a response of the
\* given status: "reject" with err, "read" the body, or "fulfil" with val
OnResponse(fn, status) ==
  CASE fn \in {"fetchNHL", "fetchESPN", "fetch.ok.json"} ->
         IF ~Ok(status)
         THEN [next |-> "reject", err |-> ApiError(fn, status), val |-> Undef]
         ELSE [next |-> "read", err |-> ApiError(fn, status), val |-> Undef]
    [] fn = "fetch.player" ->
         IF ~Ok(status)
         THEN [next |-> "fulfil", err |-> ApiError(fn, status), val |-> NotOk(status)]
         ELSE [next |-> "read", err |-> ApiError(fn, status), val |-> Undef]
    [] OTHER -> [next |-> "read", err |-> ApiError(fn, status), val |-> Undef]

\* how many more times a call is issued after a failed attempt: none
RetriesOnce(call) == IF call.requests < 2 THEN 1 ELSE 0

Retries(call) == 0

(***************************************************************************)
(* The upstream: statuses and JSON bodies it may answer with               *)
(***************************************************************************)
\* the longest list the upstream puts in a body that the handlers walk
MaxEntries == 2

SeqsUpTo(set, n) == UNION {[1..k -> set] : k \in 0..n}

Statuses == {200, 404, 500}

\* a body that is no JSON
NotJSON == [t |-> "notjson"]

\* the JSON body of an error response
ErrorBody == Obj([code |-> Num(404), message |-> S("Not Found")])

\* one entry of /standings/now
StandingsRow(abbrev, name, conf, code, count, seq) ==
  Obj([teamAbbrev |-> Localized(Str(abbrev)), teamName |-> Localized(S(name)),
       conferenceAbbrev |-> S(conf),
       conferenceName |-> S(IF conf = "E" THEN "Eastern" ELSE "Western"),
       divisionName |-> S(IF conf = "E" THEN "Atlantic" ELSE "Pacific"),
       gamesPlayed |-> Num(60), wins |-> Num(40 - seq), losses |-> Num(15 + seq),
       otLosses |-> Num(5), points |-> Num(85 - 2 * seq), pointPctg |-> Num(70 - seq),
       goalFor |-> Num(200), goalAgainst |-> Num(150 + seq),
       goalDifferential |-> Num(50 - seq),
       streakCode |-> S(code), streakCount |-> Num(count),
       l10Wins |-> Num(7), l10Losses |-> Num(2), l10OtLosses |-> Num(1),
       leagueSequence |-> Num(seq), conferenceSequence |-> Num(1),
       divisionSequence |-> Num(1)])

\* one entry of a leaders list
Leader(first, last, abbrev, position, value) ==
  Obj([firstName |-> Localized(S(first)), lastName |-> Localized(S(last)),
       teamAbbrev |-> Str(abbrev), position |-> S(position), value |-> Num(value)])

\* sample entries of the NHL API's bodies
NHLSample == [
  bruins |->
    StandingsRow(<<"B","O","S">>, "Boston Bruins", "E", "W", 4, 1),
  oilers |->
    StandingsRow(<<"E","D","M">>, "Edmonton Oilers", "W", "L", 1, 2),
  mcdavid |->
    Leader("Connor", "McDavid", <<"E","D","M">>, "C", 30),
  pastrnak |->
    Leader("David", "Pastrnak", <<"B","O","S">>, "R", 28),
  swayman |->
    Leader("Jeremy", "Swayman", <<"B","O","S">>, "G", 92),
  \* one game of /score/now
  scoreGame |->
    Obj([id |-> Num(2024020001), gameState |-> S("LIVE"),
           homeTeam |-> Obj([abbrev |-> Str(<<"B","O","S">>), score |-> Num(2)]),
           awayTeam |-> Obj([abbrev |-> Str(<<"E","D","M">>), score |-> Num(1)]),
           startTimeUTC |-> S("2025-03-01T00:00:00Z"), venue |-> Localized(S("TD Garden"))]),
  \* one game of /club-schedule-season
  clubGame |->
    Obj([gameDate |-> S("2025-03-01"),
           homeTeam |-> Obj([abbrev |-> Str(<<"B","O","S">>)]), awayTeam |-> Obj([abbrev |-> Str(<<"E","D","M">>)]),
           gameOutcome |-> Obj([lastPeriodType |-> S("REG")])]),
  \* one player of /roster
  rosterPlayer |->
    Obj([id |-> Num(8477956), firstName |-> Localized(S("David")),
           lastName |-> Localized(S("Pastrnak")), sweaterNumber |-> Num(88),
           positionCode |-> S("R"), birthCountry |-> S("CZE")]),
  \* /player/{id}/landing
  playerLanding |->
    Obj([playerId |-> Num(8478402), firstName |-> Localized(S("Connor")),
           lastName |-> Localized(S("McDavid")), currentTeamAbbrev |-> Str(<<"E","D","M">>),
           fullTeamName |-> Localized(S("Edmonton Oilers")), sweaterNumber |-> Num(97),
           position |-> S("C"), birthDate |-> S("1997-01-13"),
           birthCity |-> Localized(S("Richmond Hill")), birthCountry |-> S("CAN"),
           heightInCentimeters |-> Num(185), weightInKilograms |-> Num(88),
           shootsCatches |-> S("L"), headshot |-> S("https://assets.nhle.com/mcdavid.png"),
           featuredStats |-> Obj([regularSeason |-> Obj([
             subSeason |-> Obj([gamesPlayed |-> Num(60), goals |-> Num(30),
                                assists |-> Num(60), points |-> Num(90),
                                plusMinus |-> Num(20), pim |-> Num(18),
                                powerPlayGoals |-> Num(8), gameWinningGoals |-> Num(5),
                                shots |-> Num(200), shootingPctg |-> Num(15)]),
             career |-> Obj([gamesPlayed |-> Num(600), goals |-> Num(330),
                             assists |-> Num(620), points |-> Num(950)])])])])]

\* one side of an ESPN competition
Competitor_(side, name, abbrev, score) ==
  Obj([homeAway |-> S(side), score |-> S(score),
       team |-> Obj([displayName |-> S(name), abbreviation |-> S(abbrev)]),
       records |-> Arr(<<Obj([summary |-> S("40-15-5")])>>)])

\* one conference of the ESPN standings
Conference(name) ==
  Obj([name |-> Str(name),
       standings |-> Obj([entries |-> Arr(<<Obj([
         team |-> Obj([displayName |-> S("Boston Bruins"), abbreviation |-> S("BOS")]),
         stats |-> Arr(<<Obj([name |-> S("wins"), value |-> Num(40)]),
                         Obj([name |-> S("points"), value |-> Num(85)])>>)])>>)])])

\* sample entries of the ESPN API's bodies
ESPNSample == [
  \* one event of the ESPN scoreboard
  event |->
    Obj([id |-> S("401559001"), name |-> S("Edmonton Oilers at Boston Bruins"),
           date |-> S("2025-03-01T00:00Z"),
           status |-> Obj([period |-> Num(2), displayClock |-> S("10:00"),
                           type |-> Obj([description |-> S("In Progress")])]),
           competitions |-> Arr(<<Obj([
             competitors |-> Arr(<<Competitor_("home", "Boston Bruins", "BOS", "2"),
                                   Competitor_("away", "Edmonton Oilers", "EDM", "1")>>),
             venue |-> Obj([fullName |-> S("TD Garden")]),
             broadcasts |-> Arr(<<Obj([names |-> Arr(<<S("ESPN+")>>)])>>)])>>)]),
  eastern |->
    Conference(<<"E","a","s","t","e","r","n"," ","C","o","n","f">>),
  western |->
    Conference(<<"W","e","s","t","e","r","n"," ","C","o","n","f">>),
  \* /teams/{id}
  team |->
    Obj([team |-> Obj([id |-> S("1"), displayName |-> S("Boston Bruins"),
           abbreviation |-> S("BOS"), location |-> S("Boston"), color |-> S("231f20"),
           logos |-> Arr(<<Obj([href |-> S("https://a.espncdn.com/bos.png")])>>),
           franchise |-> Obj([venue |-> Obj([fullName |-> S("TD Garden")])]),
           record |-> Obj([items |-> Arr(<<Obj([summary |-> S("40-15-5")])>>)])])]),
  \* /teams/{id}/roster
  roster |->
    Obj([athletes |-> Arr(<<
        Obj([position |-> S("Centers"), items |-> Arr(<<
          Obj([fullName |-> S("Pavel Zacha"), jersey |-> S("18"), age |-> Num(27),
               position |-> Obj([abbreviation |-> S("C")]),
               birthPlace |-> Obj([country |-> S("Czechia")])]),
          Obj([fullName |-> S("Elias Lindholm")])>>)]),
        Obj([position |-> S("Goalies")])>>)]),
  \* /athletes/{id}
  athlete |->
    Obj([athlete |-> Obj([id |-> S("3114727"), displayName |-> S("David Pastrnak"),
           firstName |-> S("David"), lastName |-> S("Pastrnak"), jersey |-> S("88"),
           position |-> Obj([displayName |-> S("Right Wing")]),
           team |-> Obj([displayName |-> S("Boston Bruins")]), age |-> Num(28),
           displayHeight |-> S("6' 0\""), displayWeight |-> S("196 lbs"),
           dateOfBirth |-> S("1996-05-25"),
           birthPlace |-> Obj([city |-> S("Havirov"), country |-> S("Czechia")]),
           experience |-> Obj([years |-> Num(10)]), status |-> Obj([type |-> S("active")]),
           statistics |-> Arr(<<S("s1"), S("s2"), S("s3"), S("s4")>>)])]),
  \* /summary?event={id}
  summary |->
    Obj([header |-> Obj([competitions |-> Arr(<<Obj([
             date |-> S("2025-03-01T00:00Z"),
             status |-> Obj([type |-> Obj([description |-> S("Final")])]),
             competitors |-> Arr(<<Competitor_("home", "Boston Bruins", "BOS", "3"),
                                   Competitor_("away", "Edmonton Oilers", "EDM", "2")>>)])>>)]),
           gameInfo |-> Obj([venue |-> Obj([fullName |-> S("TD Garden")]),
                             attendance |-> Num(17850)]),
           scoringPlays |-> Arr(<<Obj([
             period |-> Obj([number |-> Num(1)]), clock |-> Obj([displayValue |-> S("5:00")]),
             team |-> Obj([abbreviation |-> S("BOS")]), text |-> S("Pastrnak goal"),
             awayScore |-> Num(0), homeScore |-> Num(1)])>>),
           boxscore |-> Obj([teams |-> Arr(<<Obj([
             team |-> Obj([abbreviation |-> S("BOS")]),
             statistics |-> Arr(<<Obj([name |-> S("shots"),
                                       displayValue |-> S("30")])>>)])>>)])])]

UpstreamStandingsRows ==
  {NHLSample.bruins, NHLSample.oilers, Without(NHLSample.bruins, "teamAbbrev"), Without(NHLSample.oilers, "teamName"),
   Without(Without(NHLSample.bruins, "streakCode"), "streakCount")}

StandingsBody(rows) ==
  Obj([standings |-> Arr(rows), standingsDateTimeUtc |-> S("2025-03-01T12:00:00Z")])

LeaderRows == {NHLSample.mcdavid, NHLSample.pastrnak, Without(NHLSample.mcdavid, "firstName")}

SkaterCategories == {"goals", "assists", "points", "plusMinus"}

GoalieCategories == {"gaa", "savePctg"}

\* leaders bodies: one category holds the list, the others another player
LeadersBodies(categories, lists, other) ==
  {Obj([c \in categories |-> IF c = c0 THEN Arr(l) ELSE Arr(<<other>>)]) :
     c0 \in categories, l \in lists}
  \cup {Obj([c \in categories \ {c0} |-> Arr(<<other>>)]) : c0 \in categories}

\* the JSON bodies a resource answers a handler with on a success status
Bodies(op, resource) ==
  CASE resource = "nhl/standings" ->
         IF op = "nhl/standings"
         THEN {StandingsBody(rows) : rows \in SeqsUpTo(UpstreamStandingsRows, MaxEntries)}
              \cup {Without(StandingsBody(<<>>), "standings")}
         ELSE {StandingsBody(<<NHLSample.oilers, NHLSample.bruins>>),
               StandingsBody(<<Without(NHLSample.bruins, "teamAbbrev"), NHLSample.bruins>>),
               StandingsBody(<<NHLSample.bruins, Without(NHLSample.oilers, "teamAbbrev")>>),
               Without(StandingsBody(<<>>), "standings")}
    [] resource = "nhl/skater-stats-leaders" ->
         IF op = "nhl/leaders"
         THEN LeadersBodies(SkaterCategories, SeqsUpTo(LeaderRows, MaxEntries), NHLSample.swayman)
         ELSE {Obj([c \in SkaterCategories |-> Arr(<<NHLSample.mcdavid, NHLSample.pastrnak>>)]),
               Obj([goals |-> Arr(<<Without(NHLSample.pastrnak, "lastName")>>)]),
               EmptyObj}
    [] resource = "nhl/goalie-stats-leaders" ->
         IF op = "nhl/leaders"
         THEN LeadersBodies(GoalieCategories, SeqsUpTo(LeaderRows, MaxEntries), NHLSample.swayman)
         ELSE {Obj([c \in GoalieCategories |-> Arr(<<NHLSample.swayman>>)]), EmptyObj}
    [] resource = "nhl/score" ->
         {Obj([games |-> Arr(<<NHLSample.scoreGame, Obj([id |-> Num(2024020002)])>>)]), EmptyObj}
    [] resource = "nhl/club-schedule-season" ->
         {Obj([games |-> Arr(<<NHLSample.clubGame, Without(NHLSample.clubGame, "homeTeam")>>)]), EmptyObj}
    [] resource = "nhl/roster" ->
         {Obj([forwards |-> Arr(<<NHLSample.rosterPlayer>>), defensemen |-> EmptyArr,
               goalies |-> Arr(<<NHLSample.rosterPlayer>>)]),
          Obj([forwards |-> Arr(<<Without(NHLSample.rosterPlayer, "firstName")>>)]),
          EmptyObj}
    [] resource = "nhl/player-landing" ->
         {NHLSample.playerLanding, Without(NHLSample.playerLanding, "birthCity"),
          Without(NHLSample.playerLanding, "featuredStats"), Without(NHLSample.playerLanding, "firstName"),
          Without(NHLSample.playerLanding, "lastName")}
    [] resource = "espn/scoreboard" ->
         {Obj([events |-> Arr(<<ESPNSample.event>>)]),
          Obj([events |-> Arr(<<Without(ESPNSample.event, "competitions"),
                                ESPNSample.event>>)]),
          EmptyObj}
    [] resource = "espn/standings" ->
         {Obj([children |-> Arr(<<ESPNSample.eastern, ESPNSample.western>>)]),
          Obj([children |-> Arr(<<ESPNSample.western, Without(ESPNSample.eastern, "standings")>>)]),
          Obj([children |-> Arr(<<ESPNSample.eastern, Without(ESPNSample.western, "name")>>)]),
          EmptyObj}
    [] resource = "espn/team" -> {ESPNSample.team, EmptyObj}
    [] resource = "espn/roster" -> {ESPNSample.roster, EmptyObj}
    [] resource = "espn/athlete" ->
         {ESPNSample.athlete,
          Obj([athlete |-> Without(Get(ESPNSample.athlete, "athlete"), "birthPlace")]),
          ErrorBody, EmptyObj}
    [] resource = "espn/summary" ->
         {ESPNSample.summary, Without(ESPNSample.summary, "header"), EmptyObj}
    [] OTHER -> {Obj([events |-> Arr(<<ESPNSample.event>>)])}

\* the bodies a response of the given status may carry
ResponseBodies(op, resource, status) ==
  IF Ok(status) THEN Bodies(op, resource) \cup {NotJSON} ELSE {ErrorBody, NotJSON}

(***************************************************************************)
(* What callers send                                                       *)
(***************************************************************************)
\* the values tried for each input member (Undef: the member is absent)
InputValues(op, k) ==
  CASE k = "conference" ->
         {Undef, S("eastern"), S("western"), S("all"), S("north"), Num(1)}
    [] k = "category" ->
         {Undef, S("goals"), S("assists"), S("points"), S("plusMinus"), S("gaa"),
          S("savePctg"), S("hits")}
    [] k = "limit" ->
         {Undef, Num(0), Num(1), Num(2), Num(3), Num(25), Num(26), S("3")}
    [] k = "team" ->
         {Undef, Str(<<"B","r","u","i","n","s">>), Str(<<" ","b"," ","o","s">>),
          Str(<<"x","y"," ","z">>)}
    [] k = "date" -> {Undef, Str(<<"2","0","2","5","0","3","0","1">>),
          Str(<<"t","o","m","o","r","r","o","w">>), Num(20250301)}
    [] k = "days" -> {Undef, Num(-1), Num(0), Num(1), Num(2), Num(8), S("3")}
    [] k = "playerId" /\ op = "nhl/player" -> {Undef, Num(8478402), S("8478402")}
    [] OTHER -> {Undef, S("1"), Num(1)}

RawInputs(op) ==
  {raw \in [DOMAIN Schema(op) -> UNION {InputValues(op, k) : k \in DOMAIN Schema(op)}] :
     \A k \in DOMAIN Schema(op) : raw[k] \in InputValues(op, k)}

\* the words the resolver is tried on: every alias, and some that are none
UnknownWords == {<<>>, <<"x","y","z">>, <<"n","y">>, <<"h","a","b","s">>}

(***************************************************************************)
(* State                                                                   *)
(***************************************************************************)
VARIABLES
  rtBase,     \* the word a resolver input is a variant of
  rtInput,    \* the string passed to resolveTeam
  rtEdits,    \* how many changes made rtInput out of rtBase
  rtResult,   \* what resolveTeam returned, once called
  op,         \* the entrypoint invoked
  raw,        \* the input as sent
  input,      \* ctx.input: the input as parsed by the schema
  phase,      \* idle, rejected, running, done
  result,     \* the handler's completion: an output or a thrown error
  calls,      \* the handler's outbound calls, in the order of its plan
  issued,     \* how many network requests the invocation has sent
  day,        \* schedule: the loop index i
  games,      \* schedule: the games accumulated so far
  dayLog,     \* schedule: per finished day, whether its fetch worked and its games
  pair,       \* two invocations running in one process, each with its own locals
  teams,      \* the TEAMS object of the running process
  reg         \* a run of a registration script

rtVars == <<rtBase, rtInput, rtEdits, rtResult>>

hVars == <<op, raw, input, phase, result, calls, issued, day, games, dayLog>>

pVars == <<pair, teams, reg>>

vars == <<rtBase, rtInput, rtEdits, rtResult,
          op, raw, input, phase, result, calls, issued, day, games, dayLog,
          pair, teams, reg>>

NoResult == [kind |-> "none"]

Rejected == [kind |-> "rejected"]

NoErr == Err("none", <<>>)

\* a call as issued: one request sent, nothing heard yet; `at` becomes the
\* call's place in the order in which the invocation's calls settle
NewCall(c) ==
  [fn |-> c.fn, resource |-> c.resource, caught |-> c.caught, fallback |-> c.fallback,
   st |-> "inflight", requests |-> 1, status |-> 0, failed |-> FALSE,
   parsed |-> FALSE, recovered |-> FALSE, val |-> Undef, err |-> NoErr, at |-> 0]

\* the call's promise rejects with e, unless its .catch() substitutes a value
Reject(call, e) ==
  IF call.caught
  THEN [call EXCEPT !.st = "fulfilled", !.failed = TRUE, !.recovered = TRUE,
                    !.err = e, !.val = call.fallback]
  ELSE [call EXCEPT !.st = "rejected", !.failed = TRUE, !.err = e]

\* a failed attempt: issued again while the adapter retries, else rejected
Fail(call, e) ==
  IF Retries(call) > 0
  THEN [call EXCEPT !.st = "inflight", !.requests = @ + 1, !.status = 0]
  ELSE Reject(call, e)

\* fetch() resolved with a response of the given status
Answered(call, status) ==
  LET on == OnResponse(call.fn, status)
      heard == [call EXCEPT !.status = status, !.failed = ~Ok(status)]
  IN CASE on.next = "reject" -> Fail(heard, on.err)
       [] on.next = "fulfil" -> [heard EXCEPT !.st = "fulfilled", !.val = on.val]
       [] OTHER -> [heard EXCEPT !.st = "reading"]

\* response.json() settled on the given body
Read(call, body) ==
  IF body = NotJSON THEN Fail(call, JsonSyntaxError)
  ELSE [call EXCEPT !.st = "fulfilled", !.parsed = TRUE, !.val = body]

(***************************************************************************)
(* One invocation of an entrypoint, as a value: the handler's locals and   *)
(* the promises it awaits.  A handler has no other state.                  *)
(***************************************************************************)
\* no invocation yet
IdleInv ==
  [op |-> "none", input |-> EmptyObj.f, phase |-> "idle", result |-> NoResult,
   calls |-> <<>>, issued |-> 0, day |-> 0, games |-> <<>>, dayLog |-> <<>>]

IsSettled(call) == call.st \in {"fulfilled", "rejected"}

\* the schedule handler's fetch of one day
DayCall == NewCall(Required("fetchESPN", "espn/scoreboard"))

\* the handler from its start to its first await, on a validated input: it
\* issues the calls of its plan, the schedule handler the call of day 0
Begin(o, in) ==
  IF o = "espn/schedule"
  THEN IF 0 < DaysToFetch(in.days)
       THEN [IdleInv EXCEPT !.op = o, !.input = in, !.phase = "running",
                            !.calls = <<DayCall>>, !.issued = 1]
       ELSE [IdleInv EXCEPT !.op = o, !.input = in, !.phase = "done",
                            !.result = Returned(ESPNScheduleOutput(<<>>))]
  ELSE [IdleInv EXCEPT !.op = o, !.input = in, !.phase = "running",
                       !.calls = [s \in 1..Len(Plan(o, in)) |-> NewCall(Plan(o, in)[s])],
                       !.issued = Len(Plan(o, in))]

\* the host parses the input with the entrypoint's schema and, when it is
\* accepted, runs the handler up to its first await
Start(o, r) ==
  IF ~Accepts(o, r)
  THEN [IdleInv EXCEPT !.op = o, !.phase = "rejected", !.result = Rejected]
  ELSE Begin(o, Parsed(o, r))

\* Promise.all rejects as soon as one of its promises rejects
JoinRejectsOnceSettled(cs) ==
  /\ \E j \in 1..Len(cs) : cs[j].st = "rejected"
  /\ \A j \in 1..Len(cs) : IsSettled(cs[j])

JoinRejects(cs) == \E j \in 1..Len(cs) : cs[j].st = "rejected"

\* the reason Promise.all rejects with: that of the first promise to reject
JoinError(cs) ==
  LET rejected == {j \in 1..Len(cs) : cs[j].st = "rejected"}
      first == CHOOSE j \in rejected : \A k \in rejected : cs[j].at <= cs[k].at
  IN cs[first].err

\* const [a, b, c] = await Promise.all([...]): the values in the order of
\* the array of promises, whatever the order in which they fulfilled
JoinedByArrival(cs) ==
  [j \in 1..Len(cs) |-> cs[CHOOSE k \in 1..Len(cs) : cs[k].at = j].val]

Joined(cs) == [j \in 1..Len(cs) |-> cs[j].val]

\* what the handler does when call s has just changed to `call`: a retried
\* call is sent again; a rejection rejects Promise.all and with it the
\* handler; the last fulfilment lets the handler's body run
FanOutStep(inv, s, call) ==
  LET cs == [inv.calls EXCEPT ![s] = call]
      sent == inv.issued + (call.requests - inv.calls[s].requests)
  IN IF inv.phase # "running"
     THEN [inv EXCEPT !.calls = cs, !.issued = sent]
     ELSE IF JoinRejects(cs)
     THEN [inv EXCEPT !.calls = cs, !.issued = sent, !.phase = "done",
                      !.result = Thrown(JoinError(cs))]
     ELSE IF \A j \in 1..Len(cs) : cs[j].st = "fulfilled"
     THEN [inv EXCEPT !.calls = cs, !.issued = sent, !.phase = "done",
                      !.result = Completion(Body(inv.op, inv.input, Joined(cs)))]
     ELSE [inv EXCEPT !.calls = cs, !.issued = sent]

\* schedule: games.push(...dayGames)
PushReplaces(list, dayGames) == dayGames

Push(list, dayGames) == list \o dayGames

\* schedule: one turn of the loop once the day's call has settled; the
\* try/catch around the fetch and the mapping skips a failed day
ScheduleStep(inv, call) ==
  LET mapped == ScheduleDayGames(call.val)
      worked == call.st = "fulfilled" /\ ~IsThrow(mapped)
      dayGames == IF worked THEN mapped.a ELSE <<>>
      all == IF worked THEN Push(inv.games, dayGames) ELSE inv.games
      sent == inv.issued + (call.requests - inv.calls[1].requests)
  IN
  IF ~IsSettled(call)
  THEN [inv EXCEPT !.calls = <<call>>, !.issued = sent]
  ELSE IF inv.day + 1 < DaysToFetch(inv.input.days)
  THEN [inv EXCEPT !.games = all, !.day = @ + 1,
                   !.dayLog = Append(@, [ok |-> worked, games |-> dayGames]),
                   !.calls = <<DayCall>>, !.issued = sent + 1]
  ELSE [inv EXCEPT !.games = all, !.day = @ + 1,
                   !.dayLog = Append(@, [ok |-> worked, games |-> dayGames]),
                   !.calls = <<call>>, !.issued = sent, !.phase = "done",
                   !.result = Returned(ESPNScheduleOutput(all))]

\* the invocation after its call s has changed to `call`; a call that
\* settles takes the next place in the invocation's order of settling
Step(inv, s, call) ==
  LET before == Cardinality({j \in 1..Len(inv.calls) : IsSettled(inv.calls[j])})
      stamped == IF IsSettled(call) /\ ~IsSettled(inv.calls[s])
                 THEN [call EXCEPT !.at = before + 1] ELSE call
  IN IF inv.op = "espn/schedule" THEN ScheduleStep(inv, stamped)
     ELSE FanOutStep(inv, s, stamped)

\* the bodies the scoreboard answers with for the date of day d
DayBodies(d, status) ==
  IF Ok(status)
  THEN {Obj([events |-> Arr(<<Obj([id |-> S("40155900" \o ToString(d)),
                                   name |-> S("Edmonton Oilers at Boston Bruins"),
                                   date |-> S("day " \o ToString(d))])>>)]),
        EmptyObj, NotJSON}
  ELSE {ErrorBody, NotJSON}

\* the bodies the upstream may answer call s of an invocation with
BodiesFor(inv, s) ==
  IF inv.op = "espn/schedule" THEN DayBodies(inv.day, inv.calls[s].status)
  ELSE ResponseBodies(inv.op, inv.calls[s].resource, inv.calls[s].status)

\* no registration script has been started
NoRun ==
  [script |-> "none", pc |-> "none", agent |-> 0, txs |-> <<>>,
   failed |-> FALSE, exit |-> -1]

(***************************************************************************)
(* The state of the model                                                  *)
(***************************************************************************)
\* the invocation held in the variables of the single invocation
Current ==
  [op |-> op, input |-> input, phase |-> phase, result |-> result,
   calls |-> calls, issued |-> issued, day |-> day, games |-> games,
   dayLog |-> dayLog]

\* the single invocation becomes inv
Becomes(inv) ==
  /\ op' = inv.op /\ input' = inv.input /\ phase' = inv.phase
  /\ result' = inv.result /\ calls' = inv.calls /\ issued' = inv.issued
  /\ day' = inv.day /\ games' = inv.games /\ dayLog' = inv.dayLog

Init ==
  /\ rtBase = <<>> /\ rtInput = <<>> /\ rtEdits = 0 /\ rtResult = NoResult
  /\ op = "none" /\ raw = EmptyObj.f /\ input = EmptyObj.f
  /\ phase = "idle" /\ result = NoResult
  /\ calls = <<>> /\ issued = 0 /\ day = 0 /\ games = <<>> /\ dayLog = <<>>
  /\ pair = <<IdleInv, IdleInv>> /\ teams = TEAMS /\ reg = NoRun

(***************************************************************************)
(* The resolver, called on variants of a word                              *)
(***************************************************************************)
InitResolve ==
  /\ rtBase \in TeamKeys \cup UnknownWords
  /\ rtInput = rtBase /\ rtEdits = 0 /\ rtResult = NoResult
  /\ op = "none" /\ raw = EmptyObj.f /\ input = EmptyObj.f
  /\ phase = "idle" /\ result = NoResult
  /\ calls = <<>> /\ issued = 0 /\ day = 0 /\ games = <<>> /\ dayLog = <<>>
  /\ pair = <<IdleInv, IdleInv>> /\ teams = TEAMS /\ reg = NoRun

\* the caller writes one letter of the word in the other case
ChangeCase ==
  /\ rtResult = NoResult /\ rtEdits < MaxEdits
  /\ \E i \in 1..Len(rtInput) :
       /\ UpperChar(rtInput[i]) # LowerChar(rtInput[i])
       /\ rtInput' = [rtInput EXCEPT ![i] =
            IF UpperChar(@) # @ THEN UpperChar(@) ELSE LowerChar(@)]
  /\ rtEdits' = rtEdits + 1
  /\ UNCHANGED <<rtBase, rtResult>>
  /\ UNCHANGED hVars
  /\ UNCHANGED pVars

\* the caller puts a whitespace character before, inside or after the word
InsertWhitespace ==
  /\ rtResult = NoResult /\ rtEdits < MaxEdits
  /\ \E i \in 0..Len(rtInput), w \in Whitespace :
       rtInput' = SubSeq(rtInput, 1, i) \o <<w>> \o SubSeq(rtInput, i + 1, Len(rtInput))
  /\ rtEdits' = rtEdits + 1
  /\ UNCHANGED <<rtBase, rtResult>>
  /\ UNCHANGED hVars
  /\ UNCHANGED pVars

\* resolveTeam(rtInput)
CallResolveTeam ==
  /\ rtResult = NoResult
  /\ rtResult' = resolveTeam(rtInput)
  /\ UNCHANGED <<rtBase, rtInput, rtEdits>>
  /\ UNCHANGED hVars
  /\ UNCHANGED pVars

NextResolve == ChangeCase \/ InsertWhitespace \/ CallResolveTeam

SpecResolve == InitResolve /\ [][NextResolve]_vars

(***************************************************************************)
(* One invocation of an entrypoint                                         *)
(***************************************************************************)
\* a caller invokes an entrypoint with an input
Invoke ==
  /\ phase = "idle"
  /\ \E o \in Ops : \E r \in RawInputs(o) :
       /\ raw' = r
       /\ Becomes(Start(o, r))
  /\ UNCHANGED rtVars
  /\ UNCHANGED pVars

\* fetch() rejects: the request did not get an answer
NetworkFails ==
  /\ \E s \in 1..Len(calls) :
       /\ calls[s].st = "inflight"
       /\ Becomes(Step(Current, s, Fail([calls[s] EXCEPT !.failed = TRUE], NetworkError)))
  /\ UNCHANGED raw
  /\ UNCHANGED rtVars
  /\ UNCHANGED pVars

\* fetch() resolves: the upstream answered with a status
Responds ==
  /\ \E s \in 1..Len(calls) : \E status \in Statuses :
       /\ calls[s].st = "inflight"
       /\ Becomes(Step(Current, s, Answered(calls[s], status)))
  /\ UNCHANGED raw
  /\ UNCHANGED rtVars
  /\ UNCHANGED pVars

\* response.json() settles: the body has been read
BodyArrives ==
  /\ \E s \in 1..Len(calls) :
       /\ calls[s].st = "reading"
       /\ \E body \in BodiesFor(Current, s) :
            Becomes(Step(Current, s, Read(calls[s], body)))
  /\ UNCHANGED raw
  /\ UNCHANGED rtVars
  /\ UNCHANGED pVars

Next == Invoke \/ NetworkFails \/ Responds \/ BodyArrives

Spec == Init /\ [][Next]_vars

(***************************************************************************)
(* Two invocations in one process, interleaved at their awaits             *)
(***************************************************************************)
\* the entrypoints invoked side by side, and the inputs they are given
PairOps == {"nhl/standings", "nhl/team", "espn/schedule"}

PairInputs(o) ==
  CASE o = "nhl/standings" -> {[conference |-> S("eastern")], [conference |-> Undef]}
    [] o = "nhl/team" -> {[team |-> Str(<<"B","r","u","i","n","s">>)]}
    [] OTHER -> {[days |-> Num(1)], [days |-> Num(2)]}

\* the bodies the upstream answers a call of one of the two invocations with
PairBodies(inv, s) ==
  LET resource == inv.calls[s].resource IN
  CASE inv.op = "espn/schedule" -> DayBodies(inv.day, 200) \ {NotJSON}
    [] resource = "nhl/standings" ->
         {StandingsBody(<<NHLSample.bruins, NHLSample.oilers>>),
          StandingsBody(<<NHLSample.oilers>>)}
    [] resource = "nhl/club-schedule-season" -> {Obj([games |-> Arr(<<NHLSample.clubGame>>)])}
    [] OTHER -> {Obj([forwards |-> Arr(<<NHLSample.rosterPlayer>>)])}

\* the results of earlier invocations that a handler would answer from
\* instead of fetching: the handlers keep none
CachedWhenDone(o, r, p) ==
  {p[j].result : j \in {k \in DOMAIN p : /\ p[k].op = o /\ p[k].phase = "done"
                                          /\ p[k].input = Parsed(o, r)}}

Cached(o, r, p) == {}

\* schedule: the array invocation i pushes the games of a day to, declared
\* inside the handler
AccumulatorShared(p, i) == p[CHOOSE j \in DOMAIN p : j # i].games \o p[i].games

Accumulator(p, i) == p[i].games

\* invocation i as its handler sees it when it resumes after an await
Resumed(p, i) == [p[i] EXCEPT !.games = Accumulator(p, i)]

\* a caller invokes an entrypoint while the other invocation may be running
PairInvoke ==
  /\ \E i \in DOMAIN pair : \E o \in PairOps : \E r \in PairInputs(o) :
       /\ pair[i].phase = "idle"
       /\ pair' = [pair EXCEPT ![i] =
            IF Cached(o, r, pair) = {} THEN Start(o, r)
            ELSE [IdleInv EXCEPT !.op = o, !.input = Parsed(o, r), !.phase = "done",
                                 !.result = CHOOSE h \in Cached(o, r, pair) : TRUE]]
  /\ UNCHANGED <<teams, reg>>
  /\ UNCHANGED rtVars
  /\ UNCHANGED hVars

\* a call of one invocation fails on a status that is not ok
PairCallFails ==
  /\ \E i \in DOMAIN pair : \E s \in 1..Len(pair[i].calls) :
       /\ pair[i].calls[s].st = "inflight"
       /\ pair' = [pair EXCEPT ![i] =
            Step(Resumed(pair, i), s, Answered(pair[i].calls[s], 500))]
  /\ UNCHANGED <<teams, reg>>
  /\ UNCHANGED rtVars
  /\ UNCHANGED hVars

\* a call of one invocation is answered with a JSON body
PairCallAnswered ==
  /\ \E i \in DOMAIN pair : \E s \in 1..Len(pair[i].calls) :
       /\ pair[i].calls[s].st = "inflight"
       /\ \E body \in PairBodies(pair[i], s) :
            pair' = [pair EXCEPT ![i] =
              Step(Resumed(pair, i), s, Read(Answered(pair[i].calls[s], 200), body))]
  /\ UNCHANGED <<teams, reg>>
  /\ UNCHANGED rtVars
  /\ UNCHANGED hVars

NextPair == PairInvoke \/ PairCallFails \/ PairCallAnswered

SpecPair == Init /\ [][NextPair]_vars

(***************************************************************************)
(* The registration scripts: the single-agent script of the ESPN agent's   *)
(* repository and the batch script that registers a list of agents.  A     *)
(* run records the write transactions it submitted, each with its          *)
(* outcome, and the exit status of the process (-1 while it runs).         *)
(***************************************************************************)
\* how many names the batch script's `agents` list holds in the model
MaxAgents == 4

\* how a submitted transaction may end ("network": the RPC request failed)
WriteOutcomes == {"ok", "reverted", "network"}

\* process.exit(1) inside the single-agent script's catch block
ExitFailed(run) == [run EXCEPT !.pc = "exited", !.failed = TRUE, !.exit = 1]

\* `bun run register.ts`: main() checks AGENT_DOMAIN and PRIVATE_KEY
SingleStarts ==
  /\ reg = NoRun
  /\ \E env \in {"ok", "no AGENT_DOMAIN", "no PRIVATE_KEY"} :
       reg' = IF env = "ok"
              THEN [NoRun EXCEPT !.script = "single", !.pc = "getBalance"]
              ELSE [NoRun EXCEPT !.script = "single", !.pc = "exited", !.exit = 1]
  /\ UNCHANGED <<rtVars, hVars, pair, teams>>

\* await publicClient.getBalance(...); an empty wallet exits with 1
SingleGetsBalance ==
  /\ reg.script = "single" /\ reg.pc = "getBalance"
  /\ \E o \in {"ok", "network"}, balance \in {"zero", "funded"} :
       reg' = IF o # "ok" THEN ExitFailed(reg)
              ELSE IF balance = "zero" THEN [reg EXCEPT !.pc = "exited", !.exit = 1]
              ELSE [reg EXCEPT !.pc = "balanceOf"]
  /\ UNCHANGED <<rtVars, hVars, pair, teams>>

\* await publicClient.readContract({ functionName: 'balanceOf' })
SingleReadsTokens ==
  /\ reg.script = "single" /\ reg.pc = "balanceOf"
  /\ \E o \in {"ok", "network"} :
       reg' = IF o # "ok" THEN ExitFailed(reg) ELSE [reg EXCEPT !.pc = "register"]
  /\ UNCHANGED <<rtVars, hVars, pair, teams>>

\* await walletClient.writeContract({ functionName: 'register' })
SingleRegisters ==
  /\ reg.script = "single" /\ reg.pc = "register"
  /\ \E o \in WriteOutcomes :
       reg' = IF o # "ok" THEN ExitFailed([reg EXCEPT !.txs = Append(@, o)])
              ELSE [reg EXCEPT !.txs = Append(@, o), !.pc = "receipt"]
  /\ UNCHANGED <<rtVars, hVars, pair, teams>>

\* await publicClient.waitForTransactionReceipt({ hash }): resolves with the
\* receipt of a mined transaction, whose status the script does not read
SingleWaitsForReceipt ==
  /\ reg.script = "single" /\ reg.pc = "receipt"
  /\ \E o \in {"success", "reverted", "network"} :
       reg' = CASE o = "network" -> ExitFailed(reg)
                [] o = "reverted" ->
                     [reg EXCEPT !.txs = <<"reverted">>, !.failed = TRUE,
                                 !.pc = "exited", !.exit = 0]
                [] OTHER -> [reg EXCEPT !.pc = "exited", !.exit = 0]
  /\ UNCHANGED <<rtVars, hVars, pair, teams>>

\* the batch script starts: main() enters its loop over `agents`
BatchStarts ==
  /\ reg = NoRun
  /\ reg' = [NoRun EXCEPT !.script = "batch", !.pc = "register", !.agent = 1]
  /\ UNCHANGED <<rtVars, hVars, pair, teams>>

\* one turn of the loop: registerAgent(agent) submits the transaction and
\* catches its failure, returning { success: false }
BatchRegistersAgent ==
  /\ reg.script = "batch" /\ reg.pc = "register"
  /\ \E o \in WriteOutcomes :
       reg' = [reg EXCEPT !.txs = Append(@, o),
                          !.failed = @ \/ o # "ok",
                          !.agent = @ + 1,
                          !.pc = IF reg.agent < MaxAgents THEN "register" ELSE "summary"]
  /\ UNCHANGED <<rtVars, hVars, pair, teams>>

\* the summary is printed, main() resolves and the process ends normally
BatchEnds ==
  /\ reg.script = "batch" /\ reg.pc = "summary"
  /\ reg' = [reg EXCEPT !.pc = "exited", !.exit = 0]
  /\ UNCHANGED <<rtVars, hVars, pair, teams>>

NextRegister ==
  \/ SingleStarts \/ SingleGetsBalance \/ SingleReadsTokens
  \/ SingleRegisters \/ SingleWaitsForReceipt
  \/ BatchStarts \/ BatchRegistersAgent \/ BatchEnds

SpecRegister == Init /\ [][NextRegister]_vars

(***************************************************************************)
(* Properties of the team resolver                                         *)
(***************************************************************************)
\* C1: resolveTeam applied to any variant of a key of the Team Alias Table,
\* obtained by changing letter case and by inserting whitespace before,
\* after or inside it, returns the abbreviation the table maps the key to.
C1_AliasVariantsResolve ==
  (rtResult # NoResult /\ rtBase \in TeamKeys) => rtResult = Str(TEAMS[rtBase])

\* a key written with another case and with whitespace in it has been resolved
C1_Witness ==
  /\ rtResult # NoResult /\ rtBase \in TeamKeys
  /\ \E i \in 1..Len(rtInput) : rtInput[i] \in Whitespace
  /\ \E i \in 1..Len(rtInput) : rtInput[i] # LowerChar(rtInput[i])

\* the input without its whitespace characters
Stripped(s) == SelectSeq(s, LAMBDA c : c \notin Whitespace)

\* C2: for an input whose normalized form is not a key of the table,
\* resolveTeam returns the uppercased, whitespace-stripped input.
C2_UnknownGivesUppercasedStripped ==
  (rtResult # NoResult /\ Stripped(toLowerCase(rtInput)) \notin TeamKeys)
    => rtResult = Str(toUpperCase(Stripped(rtInput)))

(***************************************************************************)
(* Properties of the upstream calls                                        *)
(***************************************************************************)
\* the calls that have settled after the upstream answered with a status
\* that is no success
SettledNotOk ==
  {s \in 1..Len(calls) :
     /\ calls[s].st \in {"fulfilled", "rejected"}
     /\ calls[s].status # 0 /\ ~Ok(calls[s].status)}

\* whether an error's message ends with the decimal form of the status
CarriesStatus(e, status) ==
  /\ e.name = "Error"
  /\ Len(e.message) > 0 /\ e.message[Len(e.message)] = ToString(status)

\* C3: whenever the upstream answers a GET of fetchNHL, of fetchESPN, of the
\* ESPN standings or of the ESPN overview, team and game handlers with a
\* non-success status, the call fails with an upstream error that carries
\* exactly that status, and the response body is never parsed.
C3_NonSuccessFailsWithStatus ==
  \A s \in SettledNotOk :
    calls[s].fn # "fetch.player" =>
      /\ calls[s].st = "rejected" \/ calls[s].recovered
      /\ CarriesStatus(calls[s].err, calls[s].status)
      /\ ~calls[s].parsed

\* the operations whose plan mixes required and optional calls
MixedOps == {"nhl/overview", "nhl/team", "nhl/report", "espn/game"}

\* the part of a mixed operation's output that its optional call feeds
OptionalPortion(o, output) ==
  CASE o = "nhl/overview" -> output.f.todayGames
    [] o = "nhl/team" -> output.f.recentGames
    [] o = "nhl/report" -> output.f.todaySchedule
    [] OTHER -> EmptyArr

RequiredFailed == \E s \in 1..Len(calls) : ~calls[s].caught /\ calls[s].failed

OptionalFailed == \E s \in 1..Len(calls) : calls[s].caught /\ calls[s].failed

\* C4: in NHL overview, team, report and ESPN game, when only the optional
\* call fails the operation returns an output whose optional portion is an
\* empty list, and when a required call fails the operation fails and
\* returns no output.
C4_MixedPlanPolicy ==
  (op \in MixedOps /\ phase = "done") =>
    /\ RequiredFailed => result.kind = "error"
    /\ (~RequiredFailed /\ OptionalFailed) =>
         /\ result.kind = "output"
         /\ OptionalPortion(op, result.output) = EmptyArr

\* C5: when every upstream call of an invocation answered with a success
\* status and a JSON body, whatever fields the body lacks, the handler does
\* not raise: it returns an output.
C5_MissingFieldsNeverRaise ==
  (/\ phase = "done" /\ Len(calls) > 0
   /\ \A s \in 1..Len(calls) :
        calls[s].st = "fulfilled" /\ Ok(calls[s].status) /\ calls[s].parsed)
    => result.kind = "output"

(***************************************************************************)
(* Properties of the NHL standings and leaders operations                  *)
(***************************************************************************)
\* the standings operation has returned an output for one conference
StandingsReturned ==
  /\ op = "nhl/standings" /\ phase = "done" /\ result.kind = "output"
  /\ input.conference \in {S("eastern"), S("western")}

\* the upstream entries tagged with the asked conference, in upstream order
TaggedEntries ==
  LET tag == IF input.conference = S("eastern") THEN S("E") ELSE S("W")
  IN SelectSeq(calls[1].val.f.standings.a,
               LAMBDA t : t.f.conferenceAbbrev = tag)

\* the returned entries are those of the asked conference, in upstream order
ReturnsTaggedEntries ==
  LET out == result.output.f.standings.a IN
  /\ Len(out) = Len(TaggedEntries)
  /\ result.output.f.count = Num(Len(TaggedEntries))
  /\ \A i \in 1..Len(out) :
       /\ out[i].f.team = TaggedEntries[i].f.teamAbbrev.f.default
       /\ out[i].f.teamName = TaggedEntries[i].f.teamName.f.default
       /\ out[i].f.points = TaggedEntries[i].f.points
       /\ {"streakCode", "streakCount"} \subseteq DOMAIN TaggedEntries[i].f =>
            out[i].f.streak =
              Str(TaggedEntries[i].f.streakCode.s
                  \o <<ToString(TaggedEntries[i].f.streakCount.n)>>)

LeadersReturned ==
  op = "nhl/leaders" /\ phase = "done" /\ result.kind = "output"

\* the upstream's list for the asked category; empty when the body has none
UpstreamLeaders ==
  LET body == calls[1].val.f
      category == input.category.s[1]
  IN IF category \in DOMAIN body THEN body[category].a ELSE <<>>

\* the returned entries are the first k of the upstream list, ranked 1..k
ReturnsFirst(k) ==
  LET out == result.output.f.leaders.a IN
  /\ Len(out) = k
  /\ result.output.f.count = Num(k)
  /\ k <= Len(UpstreamLeaders)
  /\ \A i \in 1..Len(out) :
       /\ i <= Len(UpstreamLeaders)
       /\ out[i].f.rank = Num(i)
       /\ out[i].f.name =
            Str(UpstreamLeaders[i].f.firstName.f.default.s \o <<" ">>
                \o UpstreamLeaders[i].f.lastName.f.default.s)
       /\ out[i].f.team = UpstreamLeaders[i].f.teamAbbrev
       /\ out[i].f.position = UpstreamLeaders[i].f.position
       /\ out[i].f.value = UpstreamLeaders[i].f.value

C8_RequiredFailureThrown ==
  (op # "espn/schedule" /\ phase = "done") =>
    \A s \in SettledNotOk :
      ~calls[s].caught => (calls[s].requests = 1 /\ result.kind = "error")

\* whether a string value is eight decimal digits
IsYYYYMMDD(v) ==
  /\ v.t = "string" /\ Len(v.s) = 8
  /\ \A i \in 1..Len(v.s) : v.s[i] \in {"0", "1", "2", "3", "4", "5", "6", "7", "8", "9"}

\* whether a member that was sent breaks the documented input contract
BreaksContract(k, v) ==
  CASE k = "conference" -> v \notin {S("eastern"), S("western"), S("all")}
    [] k = "category" ->
         v \notin {S("goals"), S("assists"), S("points"), S("plusMinus"),
                   S("gaa"), S("savePctg")}
    [] k = "limit" -> ~(v.t = "number" /\ v.n >= 1 /\ v.n <= 25)
    [] k = "days" -> ~(v.t = "number" /\ v.n >= 0 /\ v.n <= 7)
    [] k = "date" -> ~IsYYYYMMDD(v)
    [] OTHER -> FALSE

\* C9: an input with a conference or category outside its enum, a leaders
\* limit outside 1..25, a schedule days above 7 or not a non-negative
\* integer, or a scores date not in YYYYMMDD form is rejected before the
\* handler runs, and no upstream request is issued for the invocation.
C9_InvalidInputRejected ==
  (\E k \in DOMAIN raw : raw[k] # Undef /\ BreaksContract(k, raw[k]))
    => (phase = "rejected" /\ issued = 0)

\* C10: each invocation of fetchNHL or fetchESPN issues exactly one request,
\* whether the request succeeds or fails; the requests an invocation of a
\* handler has sent are as many as the calls it has made.
C10_OneRequestPerCall ==
  /\ \A s \in 1..Len(calls) :
       calls[s].fn \in {"fetchNHL", "fetchESPN"} => calls[s].requests = 1
  /\ op \in Ops \ {"espn/schedule"} => issued = Len(calls)
  /\ op = "espn/schedule" =>
       issued = Len(dayLog) + (IF phase = "running" THEN 1 ELSE 0)

\* adapter calls have failed, on the network and on a status, and the
\* handler is done
C10_Witness ==
  /\ phase = "done" /\ result.kind = "error"
  /\ \E s \in 1..Len(calls) :
       /\ calls[s].fn \in {"fetchNHL", "fetchESPN"}
       /\ calls[s].st = "rejected" /\ calls[s].status = 500
  /\ \E s \in 1..Len(calls) :
       /\ calls[s].fn \in {"fetchNHL", "fetchESPN"}
       /\ calls[s].failed /\ calls[s].status = 0 /\ calls[s].st # "inflight"

(***************************************************************************)
(* Properties of invocations that run side by side                         *)
(***************************************************************************)
\* the games of the days of a schedule invocation, in day order
RECURSIVE Flatten(_)
Flatten(log) ==
  IF log = <<>> THEN <<>> ELSE Head(log).games \o Flatten(Tail(log))

\* the output a handler builds from the responses to its own calls
OwnOutput(inv) ==
  IF inv.op = "espn/schedule" THEN ESPNScheduleOutput(Flatten(inv.dayLog))
  ELSE Body(inv.op, inv.input, [j \in 1..Len(inv.calls) |-> inv.calls[j].val])

\* an invocation has sent one request for each call of its plan, and for
\* the schedule one request per day
IssuedOwnCalls(inv) ==
  IF inv.op = "espn/schedule"
  THEN /\ inv.issued = Len(inv.dayLog) + (IF inv.phase = "running" THEN 1 ELSE 0)
       /\ inv.phase = "done" => inv.issued = DaysToFetch(inv.input.days)
  ELSE /\ Len(inv.calls) = Len(Plan(inv.op, inv.input))
       /\ inv.issued = Len(inv.calls)
       /\ \A s \in 1..Len(inv.calls) :
            /\ inv.calls[s].resource = Plan(inv.op, inv.input)[s].resource
            /\ inv.calls[s].requests = 1

\* C11: no result is cached or shared across invocations: whatever other
\* invocation of the same operation with the same input runs or has run,
\* every invocation issues its own full set of upstream calls, and its
\* output is built only from the responses to its own calls.
C11_NoCachedResult ==
  \A i \in DOMAIN pair :
    pair[i].phase \in {"running", "done"} =>
      /\ IssuedOwnCalls(pair[i])
      /\ (pair[i].phase = "done" /\ pair[i].result.kind = "output") =>
           pair[i].result.output = OwnOutput(pair[i])

\* two invocations of one operation with one input have both fetched and
\* have returned different outputs
C11_Witness ==
  /\ pair[1].op = "nhl/standings" /\ pair[2].op = "nhl/standings"
  /\ pair[1].input = pair[2].input
  /\ pair[1].phase = "done" /\ pair[2].phase = "done"
  /\ pair[1].issued = 1 /\ pair[2].issued = 1
  /\ pair[1].result.kind = "output" /\ pair[2].result.kind = "output"
  /\ pair[1].result # pair[2].result

\* an invocation run alone from its start against the responses that the
\* calls of inv got, in the order in which they settled
RECURSIVE Replay(_, _, _)
Replay(alone, inv, k) ==
  IF k > Len(inv.calls) THEN alone
  ELSE LET s == CHOOSE j \in 1..Len(inv.calls) : inv.calls[j].at = k
       IN Replay(Step(alone, s, [inv.calls[s] EXCEPT !.at = 0]), inv, k + 1)

\* the result of the invocation when it runs alone
AloneResult(inv) ==
  IF inv.op = "espn/schedule" THEN Returned(ESPNScheduleOutput(Flatten(inv.dayLog)))
  ELSE Replay(Begin(inv.op, inv.input), inv, 1).result

\* C12: invocations that run side by side share no mutable state: under
\* every interleaving of two invocations at their awaits, the result of
\* each equals the result it produces when run alone against the same
\* upstream responses, and the TEAMS table stays what it was at start.
C12_NoSharedState ==
  /\ teams = TEAMS
  /\ \A i \in DOMAIN pair :
       (/\ pair[i].phase = "done"
        /\ \A s \in 1..Len(pair[i].calls) : IsSettled(pair[i].calls[s]))
         => pair[i].result = AloneResult(pair[i])

\* one schedule invocation has returned games while the other, invoked with
\* more days, is between two days with games of its own
C12_Witness ==
  /\ pair[1].op = "espn/schedule" /\ pair[1].phase = "done"
  /\ pair[1].result.output.f.count = Num(1)
  /\ pair[2].op = "espn/schedule" /\ pair[2].phase = "running"
  /\ Len(pair[2].games) = 1
  /\ teams = TEAMS

(***************************************************************************)
(* Properties of the registration scripts                                  *)
(***************************************************************************)
\* C13: a registration script never retries and halts with a non-zero exit
\* on any reverted registry call or RPC failure: after a failed write
\* transaction it submits no further transaction, and when a call or a
\* transaction has failed the process exit status is not zero.  This holds
\* for the single-agent script and for the batch script.
C13_FailureHaltsNonZero ==
  /\ \A k \in 1..Len(reg.txs) : reg.txs[k] # "ok" => k = Len(reg.txs)
  /\ (reg.pc = "exited" /\ reg.failed) => reg.exit # 0
  /\ reg.failed => reg.pc = "exited"

(***************************************************************************)
(* Properties of the fan-out of a handler                                  *)
(***************************************************************************)
\* the operations whose handler awaits Promise.all over several fetches
FanOutOps ==
  {"nhl/overview", "nhl/team", "nhl/report", "espn/overview", "espn/team", "espn/game"}

InFlight == \E s \in 1..Len(calls) : ~IsSettled(calls[s])

\* C14 as stated: a fan-out handler does not complete, with an output or
\* with a failure, before every fetch it issued has settled.
C14_CompletesAfterAllSettled ==
  (op \in FanOutOps /\ phase = "done") => ~InFlight

\* C14: a fan-out handler returns an output only once every fetch it issued
\* has fulfilled; when a fetch rejects, the handler fails at that moment,
\* whether or not other fetches of the fan-out are still in flight.
C14_OutputAfterAllFailureAtOnce ==
  op \in FanOutOps =>
    /\ (phase = "done" /\ result.kind = "output") =>
         \A s \in 1..Len(calls) : calls[s].st = "fulfilled"
    /\ (\E s \in 1..Len(calls) : calls[s].st = "rejected") =>
         (phase = "done" /\ result.kind = "error")

\* the handler has failed on a rejected fetch while another is in flight
C14_Witness ==
  /\ op \in FanOutOps /\ phase = "done" /\ result.kind = "error"
  /\ \E s \in 1..Len(calls) : calls[s].st = "rejected"
  /\ InFlight

(***************************************************************************)
(* Properties of the schedule operation                                    *)
(***************************************************************************)
\* min(days, 7) calls, none when days is not positive
CallsForDays(n) == IF n < 0 THEN 0 ELSE IF n < 7 THEN n ELSE 7

\* C15: the schedule operation fetches its days one after the other: it
\* issues min(days, 7) upstream calls and never more than 7, the call of a
\* day is issued only once the calls of all earlier days have settled, and
\* at most one call of the invocation is in flight at any time.
C15_DaysFetchedSequentially ==
  (op = "espn/schedule" /\ phase \in {"running", "done"}) =>
    /\ issued <= 7
    /\ phase = "done" => issued = CallsForDays(input.days.n)
    /\ Cardinality({s \in 1..Len(calls) : ~IsSettled(calls[s])}) <= 1
    /\ InFlight => (issued = day + 1 /\ Len(dayLog) = day)
    /\ Len(dayLog) <= issued

\* asked for 8 days, the operation has fetched 7, each after the one before
C15_Witness ==
  /\ op = "espn/schedule" /\ phase = "done"
  /\ input.days = Num(8) /\ issued = 7 /\ Len(dayLog) = 7

\* the games of the days whose fetch succeeded, in day order
RECURSIVE GamesOfFetchedDays(_)
GamesOfFetchedDays(log) ==
  IF log = <<>> THEN <<>>
  ELSE (IF Head(log).ok THEN Head(log).games ELSE <<>>) \o GamesOfFetchedDays(Tail(log))

\* C16: in the schedule operation a failed fetch of a day never fails the
\* operation nor discards the data of other days: the operation returns an
\* output whose schedule is the concatenation, in day order, of the games of
\* exactly the days whose fetch succeeded, and whose count is the length of
\* that list (an empty list and 0 when every day failed).
C16_FailedDaySkipped ==
  (op = "espn/schedule" /\ phase = "done") =>
    /\ result.kind = "output"
    /\ result.output.f.schedule = Arr(GamesOfFetchedDays(dayLog))
    /\ result.output.f.count = Num(Len(GamesOfFetchedDays(dayLog)))
    /\ (\A d \in 1..Len(dayLog) : ~dayLog[d].ok) =>
         (result.output.f.schedule = EmptyArr /\ result.output.f.count = Num(0))

\* a day failed between two days that gave a game each, and the operation
\* returned both games
C16_Witness ==
  /\ op = "espn/schedule" /\ phase = "done" /\ Len(dayLog) >= 3
  /\ dayLog[1].ok /\ Len(dayLog[1].games) = 1
  /\ ~dayLog[2].ok
  /\ dayLog[3].ok /\ Len(dayLog[3].games) = 1
  /\ result.kind = "output"
  /\ Len(result.output.f.schedule.a) >= 2
  /\ result.output.f.schedule.a[1].f.date # result.output.f.schedule.a[2].f.date

(***************************************************************************)
(* Properties of the leaders operation                                     *)
(***************************************************************************)
\* the upstream answered the leaders call with a body that has no list for
\* the asked category
CategoryMissing ==
  /\ calls[1].st = "fulfilled"
  /\ input.category.s[1] \notin DOMAIN calls[1].val.f

\* C17: the leaders operation issues exactly one upstream call per
\* invocation, to the goalie-leaders endpoint when the category is gaa or
\* savePctg and to the skater-leaders endpoint for goals, assists, points
\* and plusMinus; when the payload has no list for the asked category the
\* output has an empty leaders list and count 0, and is not an error.
C17_OneCallByCategory ==
  (op = "nhl/leaders" /\ phase \in {"running", "done"}) =>
    /\ Len(calls) = 1 /\ issued = 1
    /\ input.category \in {S("gaa"), S("savePctg")} =>
         calls[1].resource = "nhl/goalie-stats-leaders"
    /\ input.category \in {S("goals"), S("assists"), S("points"), S("plusMinus")} =>
         calls[1].resource = "nhl/skater-stats-leaders"
    /\ (phase = "done" /\ CategoryMissing) =>
         /\ result.kind = "output"
         /\ result.output.f.leaders = EmptyArr
         /\ result.output.f.count = Num(0)

\* asked for savePctg, the goalie endpoint answered without that list
C17_Witness ==
  /\ op = "nhl/leaders" /\ phase = "done"
  /\ input.category = S("savePctg")
  /\ calls[1].resource = "nhl/goalie-stats-leaders"
  /\ CategoryMissing
  /\ result.kind = "output" /\ result.output.f.count = Num(0)

(***************************************************************************)
(* Properties of the join of a fan-out                                     *)
(***************************************************************************)
\* the value each call of the plan settled with, by the call's place in the
\* array given to Promise.all
ByPosition == [j \in 1..Len(calls) |-> calls[j].val]

AllFulfilled == \A s \in 1..Len(calls) : calls[s].st = "fulfilled"

\* C18: for a handler that fans out fetches and a fixed assignment of
\* responses to them, whether the invocation succeeds and the output it
\* returns are the same for every order in which the fetches complete: they
\* are determined by the response of each positional slot alone.
C18_OutcomeByPosition ==
  (op \in FanOutOps /\ phase = "done" /\ ~InFlight) =>
    /\ result.kind = "output" <=>
         (AllFulfilled /\ ~IsThrow(Body(op, input, ByPosition)))
    /\ result.kind = "output" => result.output = Body(op, input, ByPosition)

\* the fetches completed in another order than that of their slots, with
\* different payloads, and the handler returned an output
C18_Witness ==
  /\ op \in FanOutOps /\ phase = "done" /\ result.kind = "output"
  /\ AllFulfilled
  /\ calls[1].at > calls[2].at
  /\ calls[1].val # calls[2].val

(***************************************************************************)
(* Properties of the conference views of one standings payload             *)
(***************************************************************************)
\* the standings payload the upstream delivered holds a list of entries
StandingsDelivered ==
  /\ op = "nhl/standings" /\ phase = "done"
  /\ calls[1].st = "fulfilled"
  /\ "standings" \in DOMAIN calls[1].val.f

\* what the standings operation computes from the delivered payload when
\* asked for conference c
StandingsFor(c) == NHLStandingsBody([conference |-> S(c)], <<calls[1].val>>)

\* the standings summary the report operation computes from the same payload
ReportFor(c) == ReportStandingsSummary(ReportFilteredStandings(calls[1].val, S(c)))

\* the teams of a list of entries
TeamsOf(entries) == {entries.a[i].f.team : i \in 1..Len(entries.a)}

\* seq a is seq b with some of its elements left out
RECURSIVE IsSubsequence(_, _)
IsSubsequence(a, b) ==
  IF a = <<>> THEN TRUE
  ELSE IF b = <<>> THEN FALSE
  ELSE IF Head(a) = Head(b) THEN IsSubsequence(Tail(a), Tail(b))
  ELSE IsSubsequence(a, Tail(b))

\* C19: for one standings payload, the eastern and western results are
\* disjoint, each is a subsequence of the result for "all" in the same
\* order, "all" returns every upstream entry, count is the length of the
\* returned list, and the report operation keeps the same set of teams as
\* standings does for the same conference.
C19_ConferenceViewsAgree ==
  StandingsDelivered =>
    /\ \A c \in {"eastern", "western", "all"} :
         /\ ~IsThrow(StandingsFor(c))
         /\ StandingsFor(c).f.count = Num(Len(StandingsFor(c).f.standings.a))
         /\ ~IsThrow(ReportFor(c))
         /\ TeamsOf(ReportFor(c)) = TeamsOf(StandingsFor(c).f.standings)
    /\ result = Returned(StandingsFor(input.conference.s[1]))
    /\ LET east == StandingsFor("eastern").f.standings.a
           west == StandingsFor("western").f.standings.a
           all == StandingsFor("all").f.standings.a
       IN /\ \A i \in 1..Len(east), j \in 1..Len(west) : east[i] # west[j]
          /\ IsSubsequence(east, all) /\ IsSubsequence(west, all)
          /\ Len(all) = Len(calls[1].val.f.standings.a)
====
